---- MODULE Spec2Model ----
(***************************************************************************)
(* Verification model of the flash-arbitrage repository.                   *)
(*                                                                         *)
(* Part I  : PathFinder (bot/core/PathFinder.ts, src/unnamed/part_001):    *)
(*           the recursive dfs as an explicit-stack state machine,         *)
(*           findCycles, findAllCycles, removeDuplicates.                  *)
(* Part II : FlashArbitrage.sol: executeArbitrage, the Aave flash-loan     *)
(*           callback executeOperation and the admin functions.            *)
(*                                                                         *)
(* Quantities the source holds in bigint / uint256 are scaled so that      *)
(* they fit the model checker's integers: liquidity is counted in units    *)
(* of 10^6 (one USD of a 6-decimals asset); gas is unscaled.               *)
(***************************************************************************)
EXTENDS Integers, Sequences, FiniteSets, TLC

VARIABLES
    \* ---- PathFinder -----------------------------------------------------
    graph,          \* this.graph: the set of edge identifiers the graph holds
    config,         \* this.config: PathFinderConfig
    pc,             \* position of the PathFinder caller / dfs machine
    start,          \* dfs parameter `start` (lower-cased startToken)
    stack,          \* the recursion stack of dfs invocations (top = last)
    visited,        \* dfs parameter `visited` (one shared Set)
    currentPath,    \* dfs parameter `currentPath` (one shared array of edges)
    cycles,         \* dfs parameter `cycles` / the list findCycles returns
    stats,          \* this.stats (nodesVisited, pathsPruned, tokensExplored, pathsFound)
    allCycles,      \* findAllCycles: the local allCycles
    tokenIdx,       \* findAllCycles: position of the for-loop over tokens
    retained,       \* history: per processed token, how many cycles were found and the slice of allCycles kept
    dupIn,          \* removeDuplicates: the argument `paths`
    dupOut,         \* removeDuplicates: the returned list (<<>> before the call)
    dfsSteps,       \* history: steps of the dfs machine since findCycles was entered
    \* ---- FlashArbitrage ---------------------------------------------------
    status,                   \* _status (reentrancy guard)
    paused,                   \* paused
    minProfitThreshold,       \* minProfitThreshold
    totalArbitragesExecuted,  \* totalArbitragesExecuted
    totalProfitGenerated,     \* totalProfitGenerated
    ownerReceived,            \* asset units transferred to owner by the contract
    loan,                     \* the flash loan in flight at the Aave pool, if any
    opLog,                    \* history: the last call of executeOperation
    maxSlippageBps,           \* maxSlippageBps
    tokenBalance,             \* asset units the contract holds outside a loan
    ethBalance,               \* address(this).balance
    ownerEth,                 \* ETH sent to owner by the contract
    lastCall,                 \* history: the last call of an external function
    sim,                      \* the last call of the ProfitCalculator or of
                              \* PathValidator.validatePath, with its result
    \* ---- PriceGraphBuilder, PairFetcher -----------------------------------
    vertices,                 \* PriceGraphBuilder.vertices (Map by lower-case address)
    edgeMap,                  \* PriceGraphBuilder.edges (Map from tokenIn to PairEdge[])
    borrowableAssets,         \* PriceGraphBuilder.borrowableAssets
    validPairs,               \* PairFetcher: the pairs cached by fetchPairsFromDex
    \* ---- ProfitOptimizer ---------------------------------------------------
    optimizer,                \* the run of findOptimalLoanSize: state, L, iteration, ...
    \* ---- ArbitrageScanner --------------------------------------------------
    scan,                     \* the run of scan(): position, assets, paths, opportunities
    \* ---- V3SwapSimulator ---------------------------------------------------
    v3,                       \* the run of simulateSwapMultiTick: tick, liquidity, remaining input
    \* ---- strategies, StrategyEngine ----------------------------------------
    hopSearch,                \* the last cycle search of a strategy, with its result
    engine,                   \* StrategyEngine: recentOpportunities, the clock, the last result
    \* ---- ArbitrageBot ------------------------------------------------------
    bot,                      \* this.running and the main loops in flight
    \* ---- PairFetcher.fetchAllPairs -----------------------------------------
    pairCache,                \* this.pairCache, the clock and the last list returned
    \* ---- ArbitrageScanner.scanAsset ----------------------------------------
    assetScan                 \* config.targetAssets and the scanAsset calls in flight

pfVars == <<graph, config, pc, start, stack, visited, currentPath, cycles,
            stats, allCycles, tokenIdx, retained, dupIn, dupOut, dfsSteps>>

\* what the contract holds, and its slippage setting
holdVars == <<maxSlippageBps, tokenBalance, ethBalance, ownerEth>>

faVars == <<status, paused, minProfitThreshold, totalArbitragesExecuted,
            totalProfitGenerated, ownerReceived, loan, opLog, holdVars, lastCall>>

\* the off-chain profit calculation and the path validation
pcVars == <<sim>>

\* the price graph and the pair cache
pgVars == <<vertices, edgeMap, borrowableAssets, validPairs>>

\* the bot's components beside PathFinder and ProfitCalculator
\* the run of the profit optimizer
optVars == <<optimizer>>

\* the run of the scanner
scanVars == <<scan>>

\* the tick traversal, the strategies, the bot's loop, the cache of all
\* pairs and the single-asset scans
extVars == <<v3, hopSearch, engine, bot, pairCache, assetScan>>

botVars == <<pgVars, optVars, scanVars, extVars>>

vars == <<pfVars, faVars, pcVars, botVars>>

-----------------------------------------------------------------------------
(* Bounds of the model *)

\* largest number of edges a graph of the model holds
MaxEdges == 3
\* largest maxDepth a configuration of the model sets
MaxDepthBound == 4
\* largest number of pairs / pools a pool-built graph of the model holds
MaxPools == 2
\* largest number of paths handed to removeDuplicates
MaxPaths == 3
\* largest number of swaps in the ArbitrageParams of the model
MaxSwaps == 2
\* number of arbitrages after which the model requests no further one
MaxExecutions == 1
\* the amount of every flash loan of the model
LoanAmount == 10
\* the minFinalAmount of the executeArbitrage calls that ask for one
FinalFloor == 200
\* the most tokens, and the most ETH, the contract holds when it is deployed
\* and funded
MaxHeld == 2
\* the loan amounts calculateDebt is called with: the multiples of LoanUnit
\* up to MaxLoanUnits of them
LoanUnit == 101
MaxLoanUnits == 150
\* the V2 pairs swapped on: reserves of 1 to MaxReserve (and 100 and 400),
\* amounts in of 0 to MaxAmountIn, at most MaxPairSwaps swaps
MaxReserve == 6
MaxAmountIn == 6
MaxPairSwaps == 2
\* PriceGraphBuilder: pairs added before the graph is cleared
MaxAdds == 3
\* the paths handed to the ProfitCalculator and to validatePath: every
\* sequence of at most MaxHops hops, and the long alternating paths
MaxHops == 2

-----------------------------------------------------------------------------
(* Program constants *)

\* estimatePathGas: `let total = 200000n; // Flash loan base`
FlashLoanBaseGas == 200000
\* estimatePathGas: `total += 50000n; // Overhead`
OverheadGas == 50000
\* DEFAULT_PATHFINDER_CONFIG.maxDepth
DefaultMaxDepth == 6
\* FlashArbitrage: `uint256 private constant _NOT_ENTERED = 1;`
NOT_ENTERED == 1
\* FlashArbitrage: `uint256 private constant _ENTERED = 2;`
ENTERED == 2
\* executeArbitrage: `params.swaps.length > 6`
MaxPathLength == 6
\* updateConfiguration: `_maxSlippageBps > 1000`
MaxSlippageLimit == 1000
\* maxSlippageBps the model's contract is deployed with (1%)
DeployedSlippageBps == 100
\* PathValidator: MAX_PATH_LENGTH, MIN_PATH_LENGTH
MAX_PATH_LENGTH == 6
MIN_PATH_LENGTH == 2
\* ProfitCalculator: FLASH_LOAN_FEE_FACTOR
FLASH_LOAN_FEE_FACTOR == 10009
\* ProfitChecker: BPS_DENOMINATOR, FLASH_LOAN_FEE_BPS
BPS_DENOMINATOR == 10000
FLASH_LOAN_FEE_BPS == 9
\* GasEstimator.GAS_CONSTANTS
FLASH_LOAN_BASE == 200000
V3_TICK_CROSSING == 25000
TRANSFER_OVERHEAD == 25000
CALLBACK_OVERHEAD == 25000
SAFETY_BUFFER == 50000
\* ProfitCalculator.simulatePath: baseGas of a V2 and of a V3 hop
V2HopGas == 110000
V3HopGas == 120000

-----------------------------------------------------------------------------
(* Part I: the liquidity graph the PathFinder reads *)

\* canonical (lower-case) token addresses of the graph's vertices
TokenSeq == <<"a", "b", "c">>
Tokens == {TokenSeq[i] : i \in 1..Len(TokenSeq)}

\* the two edge variants, with the values PathFinder reads from a GraphEdge:
\* a V2 pair edge with ample liquidity, a V3 pool edge with little
KindSeq ==
    << [type |-> "v2", gasEstimate |-> 110000, effectiveLiquidity |-> 20000],
       [type |-> "v3", gasEstimate |-> 245000, effectiveLiquidity |-> 5000] >>

\* every directed edge a graph of the model may hold: one per
\* (from, to, variant); the identifier stands for the pair / pool object
EdgeCount == Len(TokenSeq) * Len(TokenSeq) * Len(KindSeq)
EdgeIds == 1..EdgeCount

\* the edge of each identifier
EdgeTable ==
    [ i \in EdgeIds |->
        LET k == KindSeq[((i - 1) % Len(KindSeq)) + 1]
        IN  [ id     |-> i,
              from   |-> TokenSeq[((i - 1) \div (Len(TokenSeq) * Len(KindSeq))) + 1],
              to     |-> TokenSeq[(((i - 1) \div Len(KindSeq)) % Len(TokenSeq)) + 1],
              type   |-> k.type,
              gasEstimate |-> k.gasEstimate,
              effectiveLiquidity |-> k.effectiveLiquidity ] ]

\* a ring of six further tokens joined by V2 pair edges, and the chord that
\* closes a ring of five
RingTokenSeq == <<"r1", "r2", "r3", "r4", "r5", "r6">>
RingTokens == {RingTokenSeq[i] : i \in 1..Len(RingTokenSeq)}
RingEdgeIds == (EdgeCount + 1)..(EdgeCount + Len(RingTokenSeq))
ChordEdgeId == EdgeCount + Len(RingTokenSeq) + 1

RingEdge(i) ==
    LET k == i - EdgeCount
    IN  [ id     |-> i,
          from   |-> IF i = ChordEdgeId THEN RingTokenSeq[Len(RingTokenSeq) - 1]
                     ELSE RingTokenSeq[k],
          to     |-> IF i = ChordEdgeId THEN RingTokenSeq[1]
                     ELSE RingTokenSeq[(k % Len(RingTokenSeq)) + 1],
          type   |-> KindSeq[1].type,
          gasEstimate |-> KindSeq[1].gasEstimate,
          effectiveLiquidity |-> KindSeq[1].effectiveLiquidity ]

EdgeAt(i) == IF i \in EdgeIds THEN EdgeTable[i] ELSE RingEdge(i)

\* the possible edges that leave each token, in insertion order
EdgeSeqFrom ==
    [ t \in Tokens |->
        SelectSeq([i \in EdgeIds |-> i], LAMBDA i : EdgeTable[i].from = t) ]

\* graph.hasVertex(token)
HasVertex(token) ==
    \/ token \in Tokens
    \/ \E i \in graph \ EdgeIds : token \in {RingEdge(i).from, RingEdge(i).to}

\* graph.getOutgoingEdges(token): the edges leaving token, in insertion order
GetOutgoingEdges(token) ==
    IF token \in Tokens
    THEN SelectSeq(EdgeSeqFrom[token], LAMBDA i : i \in graph)
    ELSE SelectSeq([k \in 1..(Len(RingTokenSeq) + 1) |-> EdgeCount + k],
                   LAMBDA i : i \in graph /\ RingEdge(i).from = token)

\* startToken.toLowerCase()
ToLowerCase(s) == IF s = "A" THEN "a" ELSE s

-----------------------------------------------------------------------------
(* Part I: PathFinder helpers *)

RECURSIVE SumGas(_)
SumGas(edges) ==
    IF edges = <<>> THEN 0
    ELSE EdgeAt(Head(edges)).gasEstimate + SumGas(Tail(edges))

\* estimatePathGas(edges)
estimatePathGas(edges) == FlashLoanBaseGas + SumGas(edges) + OverheadGas

\* convertToArbitragePath(edges, startToken)
convertToArbitragePath(edges, startToken) ==
    [ hops |-> [i \in 1..Len(edges) |->
                  [ type     |-> EdgeAt(edges[i]).type,
                    tokenIn  |-> EdgeAt(edges[i]).from,
                    tokenOut |-> EdgeAt(edges[i]).to,
                    pool     |-> EdgeAt(edges[i]).id ]],
      tokenAddresses |-> <<startToken>> \o
                         [i \in 1..Len(edges) |-> EdgeAt(edges[i]).to] ]

\* variants of the depth test: off by one either way
DepthExceededLate(depth) == depth > config.maxDepth + 1
DepthExceededEarly(depth) == depth >= config.maxDepth

\* dfs: `if (depth > this.config.maxDepth)`
DepthExceeded(depth) == depth > config.maxDepth

\* variant of the cycle test that forgets `current === start`
CycleFoundAnywhere(current, depth) ==
    depth >= config.minDepth /\ Len(currentPath) > 0

\* dfs: `if (depth >= minDepth && current === start && currentPath.length > 0)`
CycleFound(current, depth) ==
    depth >= config.minDepth /\ current = start /\ Len(currentPath) > 0

\* dfs: `if (depth > 0 && current !== start && visited.has(current))`
AlreadyVisited(current, depth) ==
    depth > 0 /\ current # start /\ current \in visited

\* dfs: `if (current !== start || depth > 0)` guarding visited.add / delete
Marks(current, depth) == current # start \/ depth > 0

\* variant of the liquidity test that never prunes
LiquidityNeverPruned(e) == FALSE

\* dfs: the liquidity pruning test of one edge
LiquidityPruned(e) ==
    config.enablePruning /\ EdgeAt(e).effectiveLiquidity < config.minLiquidity

\* dfs: the gas pruning test of one edge
GasPruned(e) ==
    config.enablePruning
    /\ estimatePathGas(currentPath) + EdgeAt(e).gasEstimate > config.maxGasEstimate

Top == stack[Len(stack)]
Pop(s) == SubSeq(s, 1, Len(s) - 1)

\* variant of the recursive call that passes `depth` instead of `depth + 1`
FrameSameDepth(current, depth, vis, path) ==
    [ current |-> current, depth |-> IF depth > 0 THEN depth - 1 ELSE 0, idx |-> 1,
      visitedIn |-> vis, pathIn |-> path ]

\* a dfs invocation: its parameters, its loop position, and (history) the
\* visited set and edge list it was entered with
Frame(current, depth, vis, path) ==
    [ current |-> current, depth |-> depth, idx |-> 1,
      visitedIn |-> vis, pathIn |-> path ]

-----------------------------------------------------------------------------
(* Part I: PathFinder actions *)

\* findCycles body after the hasVertex test: fresh cycles, visited, currentPath
\* and the call dfs(start, start, visited, currentPath, cycles, 0)
BeginDfs(s) ==
    /\ start' = s
    /\ cycles' = <<>>
    /\ visited' = {}
    /\ currentPath' = <<>>
    /\ stack' = << Frame(s, 0, {}, <<>>) >>
    /\ dfsSteps' = 0
    /\ pc' = "enter"

\* findCycles(startToken), called directly
FindCycles(startToken) ==
    /\ pc = "idle"
    /\ tokenIdx' = 0
    /\ IF HasVertex(ToLowerCase(startToken))
       THEN BeginDfs(ToLowerCase(startToken))
       ELSE /\ start' = ToLowerCase(startToken)
            /\ cycles' = <<>>
            /\ pc' = "done"
            /\ UNCHANGED <<visited, currentPath, stack, dfsSteps>>
    /\ UNCHANGED <<graph, config, stats, allCycles, retained, dupIn, dupOut, faVars, pcVars, botVars>>

\* dfs, entry: the statistics counter and the three early returns, else mark
DfsEnter ==
    /\ pc = "enter"
    /\ LET f == Top IN
       IF DepthExceeded(f.depth) THEN
            /\ stats' = [stats EXCEPT !.nodesVisited = @ + 1, !.pathsPruned = @ + 1]
            /\ pc' = "exit"
            /\ UNCHANGED <<cycles, visited>>
       ELSE IF CycleFound(f.current, f.depth) THEN
            /\ stats' = [stats EXCEPT !.nodesVisited = @ + 1]
            /\ cycles' = Append(cycles, convertToArbitragePath(currentPath, start))
            /\ pc' = "exit"
            /\ UNCHANGED visited
       ELSE IF AlreadyVisited(f.current, f.depth) THEN
            /\ stats' = [stats EXCEPT !.nodesVisited = @ + 1, !.pathsPruned = @ + 1]
            /\ pc' = "exit"
            /\ UNCHANGED <<cycles, visited>>
       ELSE
            /\ stats' = [stats EXCEPT !.nodesVisited = @ + 1]
            /\ visited' = IF Marks(f.current, f.depth)
                          THEN visited \cup {f.current} ELSE visited
            /\ pc' = "loop"
            /\ UNCHANGED cycles
    /\ dfsSteps' = dfsSteps + 1
    /\ UNCHANGED <<graph, config, start, stack, currentPath, allCycles,
                   tokenIdx, retained, dupIn, dupOut, faVars, pcVars, botVars>>

\* dfs, one iteration of `for (const edge of edges)`: prune the edge, or
\* push it and recurse; after the last edge, unmark and return
DfsLoop ==
    /\ pc = "loop"
    /\ LET f == Top
           edges == GetOutgoingEdges(f.current)
       IN
       IF f.idx > Len(edges) THEN
            /\ visited' = IF Marks(f.current, f.depth)
                          THEN visited \ {f.current} ELSE visited
            /\ pc' = "exit"
            /\ UNCHANGED <<stats, currentPath, stack>>
       ELSE IF LiquidityPruned(edges[f.idx]) \/ GasPruned(edges[f.idx]) THEN
            /\ stats' = [stats EXCEPT !.pathsPruned = @ + 1]
            /\ stack' = [stack EXCEPT ![Len(stack)].idx = @ + 1]
            /\ UNCHANGED <<pc, visited, currentPath>>
       ELSE
            /\ currentPath' = Append(currentPath, edges[f.idx])
            /\ stack' = Append(stack,
                               Frame(EdgeAt(edges[f.idx]).to, f.depth + 1, visited,
                                     Append(currentPath, edges[f.idx])))
            /\ pc' = "enter"
            /\ UNCHANGED <<stats, visited>>
    /\ dfsSteps' = dfsSteps + 1
    /\ UNCHANGED <<graph, config, start, cycles, allCycles, tokenIdx,
                   retained, dupIn, dupOut, faVars, pcVars, botVars>>

\* dfs returns: back in the caller's loop `currentPath.pop()` runs and the
\* loop moves on; the outermost return ends findCycles
DfsReturn ==
    /\ pc = "exit"
    /\ IF Len(stack) = 1 THEN
            /\ stack' = <<>>
            /\ pc' = "done"
            /\ UNCHANGED currentPath
       ELSE
            /\ stack' = [Pop(stack) EXCEPT ![Len(stack) - 1].idx = @ + 1]
            /\ currentPath' = Pop(currentPath)
            /\ pc' = "loop"
    /\ dfsSteps' = dfsSteps + 1
    /\ UNCHANGED <<graph, config, start, visited, cycles, stats, allCycles,
                   tokenIdx, retained, dupIn, dupOut, faVars, pcVars, botVars>>


\* findAllCycles, up to the first findCycles call: reset the statistics,
\* take the token list and enter the loop
FindAllCycles ==
    /\ pc = "idle"
    /\ stats' = [nodesVisited |-> 0, pathsPruned |-> 0,
                 tokensExplored |-> 0, pathsFound |-> 0]
    /\ allCycles' = <<>>
    /\ retained' = <<>>
    /\ tokenIdx' = 1
    /\ BeginDfs(ToLowerCase(TokenSeq[1]))
    /\ UNCHANGED <<graph, config, dupIn, dupOut, faVars, pcVars, botVars>>

\* Array.prototype.splice(start) for start >= 0: drop everything from start on
Splice(arr, from) == SubSeq(arr, 1, IF from < Len(arr) THEN from ELSE Len(arr))

\* variant of the cap that splices at maxPathsPerToken, without the offset
CapPathsGlobal(all, found) ==
    IF Len(found) > config.maxPathsPerToken
    THEN Splice(all \o found, config.maxPathsPerToken)
    ELSE all \o found

\* findAllCycles: `allCycles.push(...cycles)` and the cap on paths per token
CapPaths(all, found) ==
    IF Len(found) > config.maxPathsPerToken
    THEN Splice(all \o found,
                Len(all \o found) - Len(found) + config.maxPathsPerToken)
    ELSE all \o found

\* findAllCycles, after findCycles(token) returned: collect, cap, and go on
\* to the next token or compute the final statistics and return
FindAllCyclesCollect ==
    /\ pc = "done"
    /\ tokenIdx > 0
    /\ allCycles' = CapPaths(allCycles, cycles)
    /\ retained' = Append(retained,
                          [ found |-> Len(cycles),
                            kept  |-> SubSeq(allCycles', Len(allCycles) + 1,
                                             Len(allCycles')) ])
    /\ IF tokenIdx < Len(TokenSeq)
       THEN /\ tokenIdx' = tokenIdx + 1
            /\ BeginDfs(ToLowerCase(TokenSeq[tokenIdx + 1]))
            /\ stats' = [stats EXCEPT !.tokensExplored = @ + 1]
       ELSE /\ pc' = "allDone"
            /\ stats' = [stats EXCEPT !.tokensExplored = @ + 1,
                                      !.pathsFound = Len(allCycles')]
            /\ UNCHANGED <<tokenIdx, start, cycles, visited, currentPath, stack,
                           dfsSteps>>
    /\ UNCHANGED <<graph, config, dupIn, dupOut, faVars, pcVars, botVars>>

RECURSIVE Join(_, _)
\* Array.prototype.join(sep)
Join(strs, sep) ==
    IF strs = <<>> THEN ""
    ELSE IF Len(strs) = 1 THEN strs[1]
    ELSE strs[1] \o sep \o Join(Tail(strs), sep)

\* getPathKey(path)
getPathKey(path) == Join(path.tokenAddresses, "->")

RECURSIVE DedupFromNoAdd(_, _, _)
\* variant of the loop that forgets `seen.add(key)`
DedupFromNoAdd(paths, seen, unique) ==
    IF paths = <<>> THEN unique
    ELSE IF getPathKey(Head(paths)) \notin seen
         THEN DedupFromNoAdd(Tail(paths), seen, Append(unique, Head(paths)))
         ELSE DedupFromNoAdd(Tail(paths), seen, unique)

RECURSIVE DedupFrom(_, _, _)
\* the loop of removeDuplicates, from the given `seen` and `unique`
DedupFrom(paths, seen, unique) ==
    IF paths = <<>> THEN unique
    ELSE IF getPathKey(Head(paths)) \notin seen
         THEN DedupFrom(Tail(paths), seen \cup {getPathKey(Head(paths))},
                        Append(unique, Head(paths)))
         ELSE DedupFrom(Tail(paths), seen, unique)

\* removeDuplicates(paths)
removeDuplicates(paths) == DedupFrom(paths, {}, <<>>)

\* a call of removeDuplicates on the list dupIn
RemoveDuplicates ==
    /\ pc = "idle"
    /\ dupOut' = removeDuplicates(dupIn)
    /\ pc' = "dedupDone"
    /\ UNCHANGED <<graph, config, start, stack, visited, currentPath, cycles,
                   stats, allCycles, tokenIdx, retained, dupIn, faVars, pcVars, botVars, dfsSteps>>

RECURSIVE SeqsUpTo(_, _)
\* the sequences over S of length at most n
SeqsUpTo(S, n) ==
    IF n = 0 THEN {<<>>}
    ELSE LET shorter == SeqsUpTo(S, n - 1)
         IN  shorter \cup {Append(q, x) : q \in shorter, x \in S}

-----------------------------------------------------------------------------
(* Part II: FlashArbitrage.sol *)

\* the addresses of the model: the contract, its owner, the Aave pool and
\* an account that is none of them
THIS == "FlashArbitrage"
OWNER == "owner"
POOL == "aavePool"
STRANGER == "stranger"

Assets == {"USDC", "WETH"}

\* the states of a pair / pool a swap may meet: the reserves a V2 pair
\* reports and the amount a V3 pool pays out
PoolStates ==
    { [reserveIn |-> 100, reserveOut |-> 100, v3Out |-> 12],
      [reserveIn |-> 100, reserveOut |-> 400, v3Out |-> 30] }

\* a SwapStep between two different tokens; minAmountOut is 0 (no floor) or
\* 15, more than the loan
SwapSteps ==
    {s \in [tokenIn : Assets, tokenOut : Assets, isV3 : BOOLEAN,
            minAmountOut : {0, 15}] : s.tokenIn # s.tokenOut}

\* the parameters an outsider hands to executeOperation: a valid two-swap
\* path that is profitable on well-filled pairs
ProbeParams ==
    [ asset |-> "USDC", amount |-> LoanAmount, minFinalAmount |-> 0,
      swaps |-> << [tokenIn |-> "USDC", tokenOut |-> "WETH", isV3 |-> FALSE,
                    minAmountOut |-> 0],
                   [tokenIn |-> "WETH", tokenOut |-> "USDC", isV3 |-> FALSE,
                    minAmountOut |-> 0] >> ]

\* the ArbitrageParams of the model: a loan of LoanAmount and at most
\* MaxSwaps swaps
ArbitrageParams ==
    [asset : Assets, amount : {LoanAmount}, swaps : SeqsUpTo(SwapSteps, MaxSwaps),
     minFinalAmount : {0}]

\* the premium the Aave pool charges on a loan: 9 bps, rounded up
Premium(amount) == (amount * 9 + 9999) \div 10000

\* getV2AmountOut / _executeV2Swap: the constant-product output after the
\* 0.3% fee
getV2AmountOut(amountIn, reserveIn, reserveOut) ==
    (amountIn * 997 * reserveOut) \div (reserveIn * 1000 + amountIn * 997)

\* _executeV2Swap / _executeV3Swap: the amount one swap returns
SwapOutput(step, amountIn, poolState) ==
    IF step.isV3 THEN poolState.v3Out
    ELSE getV2AmountOut(amountIn, poolState.reserveIn, poolState.reserveOut)

RECURSIVE SwapLoop(_, _, _, _)
\* executeOperation: the loop over arbParams.swaps from swap i on with
\* currentBalance = balance; the error that ends it ("" for none), the
\* swaps it entered and the balance it leaves
SwapLoop(swaps, poolStates, i, balance) ==
    IF i > Len(swaps) THEN [error |-> "", swapsRun |-> i - 1, balance |-> balance]
    ELSE LET out == SwapOutput(swaps[i], balance, poolStates[i])
         IN  IF out = 0 \/ out < swaps[i].minAmountOut
             THEN [error |-> "InsufficientOutput", swapsRun |-> i, balance |-> out]
             ELSE SwapLoop(swaps, poolStates, i + 1, out)

\* variant of the callback check that forgets the initiator
CallbackAcceptedAnyInitiator(sender, initiator) == sender = POOL

\* executeOperation: `msg.sender != POOL` and `initiator != address(this)`
CallbackAccepted(sender, initiator) == sender = POOL /\ initiator = THIS

\* variant of the profit test that only asks for the debt
ProfitReachedDebtOnly(balance, totalDebt) == balance >= totalDebt

\* executeOperation: the negation of
\* `currentBalance < totalDebt + minProfitThreshold`
ProfitReached(balance, totalDebt) == balance >= totalDebt + minProfitThreshold

\* what a call of executeOperation that ends before the profit test reports
Refused(error, swapsRun) ==
    [ error |-> error, swapsRun |-> swapsRun, swapsDone |-> FALSE, final |-> 0,
      profit |-> 0, approved |-> 0, actual |-> 0, required |-> 0 ]

\* executeOperation(asset, amount, premium, initiator, params) called by
\* sender: the error it reverts with ("" when it returns true), the swaps it
\* entered, whether the loop over the swaps completed and the balance it
\* left, the allowance given to the Aave pool, the profit transferred to
\* owner and the arguments of InsufficientProfit. The subtraction
\* `currentBalance - totalDebt` in the arguments of InsufficientProfit is
\* checked arithmetic: below the debt it reverts with Panic(0x11).
executeOperation(sender, amount, premium, initiator, params, poolStates, transferOk) ==
    IF ~ CallbackAccepted(sender, initiator)
    THEN Refused("InvalidCallback", 0)
    ELSE LET r == SwapLoop(params.swaps, poolStates, 1, amount)
             totalDebt == amount + premium
             done == [ Refused("", r.swapsRun) EXCEPT
                         !.swapsDone = TRUE, !.final = r.balance ]
         IN  IF r.error # ""
             THEN Refused(r.error, r.swapsRun)
             ELSE IF ~ ProfitReached(r.balance, totalDebt)
             THEN IF r.balance < totalDebt
                  THEN [done EXCEPT !.error = "Panic"]
                  ELSE [done EXCEPT !.error = "InsufficientProfit",
                                    !.actual = r.balance - totalDebt,
                                    !.required = minProfitThreshold]
             ELSE IF ~ transferOk
             THEN [done EXCEPT !.error = "TransferFailed"]
             ELSE [done EXCEPT !.profit = r.balance - totalDebt,
                               !.approved = totalDebt]

\* modifier onlyOwner: the caller passes
OnlyOwnerAnyCaller(caller) == TRUE

onlyOwner(caller) == caller = OWNER

\* modifier whenNotPaused: the call passes
WhenNotPausedAlways == TRUE

whenNotPaused == ~ paused

\* modifier nonReentrant: the call passes
NonReentrantAlways == TRUE

nonReentrant == status # ENTERED

\* executeArbitrage: the path validation passes
ValidPathAnyLength(params) ==
    /\ Len(params.swaps) # 0
    /\ params.swaps[1].tokenIn = params.swaps[Len(params.swaps)].tokenOut
    /\ params.asset = params.swaps[1].tokenIn

ValidPath(params) ==
    /\ ~ (Len(params.swaps) = 0 \/ Len(params.swaps) > MaxPathLength)
    /\ params.swaps[1].tokenIn = params.swaps[Len(params.swaps)].tokenOut
    /\ params.asset = params.swaps[1].tokenIn

\* executeArbitrage: the modifiers and the path validation, in order; the
\* error the call reverts with, "" when it goes on to request the loan
ArbitrageCheck(caller, params) ==
    IF ~ onlyOwner(caller) THEN "Unauthorized"
    ELSE IF ~ whenNotPaused THEN "Paused"
    ELSE IF ~ nonReentrant THEN "ReentrancyGuard"
    ELSE IF ~ ValidPath(params) THEN "InvalidPath"
    ELSE ""

\* updateConfiguration: the error the call reverts with, "" when it succeeds
ConfigurationCheck(caller, newMaxSlippageBps) ==
    IF ~ onlyOwner(caller) THEN "Unauthorized"
    ELSE IF newMaxSlippageBps > MaxSlippageLimit THEN "InvalidConfiguration"
    ELSE ""

\* pause and unpause: the error the call reverts with
PauseCheck(caller) == IF ~ onlyOwner(caller) THEN "Unauthorized" ELSE ""

\* withdrawToken: `amount == 0 ? balance : amount`
WithdrawAmount(amount) == IF amount = 0 THEN tokenBalance ELSE amount

\* withdrawToken: the error the call reverts with
WithdrawTokenCheck(caller, amount, transferOk) ==
    IF ~ onlyOwner(caller) THEN "Unauthorized"
    ELSE IF ~ (WithdrawAmount(amount) <= tokenBalance) THEN "Insufficient balance"
    ELSE IF ~ transferOk THEN "TransferFailed"
    ELSE ""

\* withdrawETH: the error the call reverts with
WithdrawETHCheck(caller, sendOk) ==
    IF ~ onlyOwner(caller) THEN "Unauthorized"
    ELSE IF ~ sendOk THEN "ETH transfer failed"
    ELSE ""

\* uniswapV3SwapCallback: the amount paid to the caller; a negative
\* amount1Delta converts to a uint256 above every balance, shown as -1
AmountToPay(amount0Delta, amount1Delta) ==
    IF amount0Delta > 0 THEN amount0Delta
    ELSE IF amount1Delta >= 0 THEN amount1Delta
    ELSE -1

\* uniswapV3SwapCallback: the error the call reverts with; the token reverts
\* a transfer above the balance
V3CallbackCheck(amount0Delta, amount1Delta) ==
    LET amountToPay == AmountToPay(amount0Delta, amount1Delta)
    IN  IF amountToPay < 0 \/ amountToPay > tokenBalance THEN "TransferFailed" ELSE ""

NoLoan == [active |-> FALSE, params |-> [swaps |-> <<>>]]

\* the history of the transaction in progress before any call of
\* executeOperation
NoCall == [called |-> FALSE]

\* the history before any external function was called
NoExternalCall ==
    [fn |-> "", error |-> "", pausedBefore |-> FALSE, refusedPaused |-> FALSE]

\* an executeArbitrage is executing: its flash loan is in flight
InArbitrage == IF loan.active THEN loan.byArbitrageOf # "" ELSE FALSE

\* the contract holds t units of the asset and e of ETH
Holds(t, e) == tokenBalance = t /\ ethBalance = e

\* the contract's storage, as a call may change it
Storage == <<status, paused, minProfitThreshold, totalArbitragesExecuted,
             totalProfitGenerated>>

\* the state after the constructor
InitFlashArbitrage ==
    /\ status = NOT_ENTERED
    /\ paused = FALSE
    /\ minProfitThreshold \in {0, 5}
    /\ totalArbitragesExecuted = 0
    /\ totalProfitGenerated = 0
    /\ ownerReceived = 0
    /\ loan = NoLoan
    /\ opLog = NoCall
    /\ maxSlippageBps = DeployedSlippageBps
    /\ ownerEth = 0
    /\ lastCall = NoExternalCall

\* executeArbitrage(params) by caller, up to the call of flashLoanSimple,
\* as a transaction of its own or called while an executeArbitrage is
\* executing: a revert leaves everything as it was, otherwise the guard is
\* taken and the loan is requested from the Aave pool with this contract as
\* initiator
ExecuteArbitrage(caller, params) ==
    /\ loan.active => InArbitrage
    /\ totalArbitragesExecuted < MaxExecutions
    /\ IF ArbitrageCheck(caller, params) # ""
       THEN UNCHANGED <<status, loan>>
       ELSE /\ status' = ENTERED
            /\ loan' = [active |-> TRUE, initiator |-> THIS, byArbitrageOf |-> caller,
                        params |-> params]
    /\ opLog' = IF loan.active THEN opLog ELSE NoCall
    /\ UNCHANGED <<paused, minProfitThreshold, totalArbitragesExecuted,
                   totalProfitGenerated, ownerReceived, holdVars, pfVars, pcVars, botVars>>

\* POOL.flashLoanSimple(receiver = this contract, ...) called by another
\* account: the pool will call back with that account as initiator
ForeignFlashLoan(caller, params) ==
    /\ ~ loan.active
    /\ caller # THIS
    /\ loan' = [active |-> TRUE, initiator |-> caller, byArbitrageOf |-> "",
                params |-> params]
    /\ opLog' = NoCall
    /\ UNCHANGED <<status, paused, minProfitThreshold, totalArbitragesExecuted,
                   totalProfitGenerated, ownerReceived, holdVars, pfVars, pcVars, botVars>>

\* what a call of executeOperation leaves in the history: who called, the
\* loan and threshold it met, what it did (see executeOperation) and
\* whether the contract's storage differs after it
OpRecord(sender, initiator, amount, r, transferOk, after) ==
    [ called |-> TRUE, sender |-> sender, initiator |-> initiator,
      byArbitrageOf |-> IF loan.active THEN loan.byArbitrageOf ELSE "",
      amount |-> amount, premium |-> Premium(amount),
      threshold |-> minProfitThreshold, transferOk |-> transferOk,
      error |-> r.error, swapsRun |-> r.swapsRun, swapsDone |-> r.swapsDone,
      final |-> r.final, profit |-> r.profit, approved |-> r.approved,
      actual |-> r.actual, required |-> r.required,
      changed |-> (after # Storage) ]

\* the Aave pool calls executeOperation for the loan in flight. When it
\* returns true the pool takes the repayment, flashLoanSimple returns and,
\* in executeArbitrage, the guard is released; when it reverts the whole
\* transaction reverts, the guard taken by executeArbitrage included.
FlashLoanCallback(poolStates, transferOk) ==
    /\ loan.active
    /\ LET r == executeOperation(POOL, loan.params.amount, Premium(loan.params.amount),
                                 loan.initiator, loan.params, poolStates, transferOk)
       IN  /\ IF r.error = ""
              THEN /\ totalArbitragesExecuted' = totalArbitragesExecuted + 1
                   /\ totalProfitGenerated' = totalProfitGenerated + r.profit
                   /\ ownerReceived' = ownerReceived + r.profit
              ELSE UNCHANGED <<totalArbitragesExecuted, totalProfitGenerated,
                               ownerReceived>>
           /\ opLog' = OpRecord(POOL, loan.initiator, loan.params.amount, r,
                                transferOk,
                                <<status, paused, minProfitThreshold,
                                  totalArbitragesExecuted', totalProfitGenerated'>>)
    /\ status' = NOT_ENTERED
    /\ loan' = NoLoan
    /\ UNCHANGED <<paused, minProfitThreshold, holdVars, pfVars, pcVars, botVars>>

\* executeOperation called by an account or contract that is not the Aave
\* pool, with parameters of its choice, in or outside an arbitrage
DirectCallback(sender, initiator, params, poolStates) ==
    /\ sender # POOL
    /\ LET r == executeOperation(sender, params.amount, Premium(params.amount),
                                 initiator, params, poolStates, TRUE)
       IN  /\ IF r.error = ""
              THEN /\ totalArbitragesExecuted' = totalArbitragesExecuted + 1
                   /\ totalProfitGenerated' = totalProfitGenerated + r.profit
                   /\ ownerReceived' = ownerReceived + r.profit
              ELSE UNCHANGED <<totalArbitragesExecuted, totalProfitGenerated,
                               ownerReceived>>
           /\ opLog' = OpRecord(sender, initiator, params.amount, r, TRUE,
                                <<status, paused, minProfitThreshold,
                                  totalArbitragesExecuted', totalProfitGenerated'>>)
    /\ UNCHANGED <<status, paused, minProfitThreshold, loan, holdVars, pfVars, pcVars, botVars>>

\* pause() by caller
Pause(caller) ==
    /\ ~ loan.active
    /\ IF PauseCheck(caller) = "" THEN paused' = TRUE ELSE UNCHANGED paused
    /\ UNCHANGED <<status, minProfitThreshold, totalArbitragesExecuted,
                   totalProfitGenerated, ownerReceived, loan, opLog, holdVars, pfVars, pcVars, botVars>>

\* unpause() by caller
Unpause(caller) ==
    /\ ~ loan.active
    /\ IF PauseCheck(caller) = "" THEN paused' = FALSE ELSE UNCHANGED paused
    /\ UNCHANGED <<status, minProfitThreshold, totalArbitragesExecuted,
                   totalProfitGenerated, ownerReceived, loan, opLog, holdVars, pfVars, pcVars, botVars>>

\* updateConfiguration(_minProfitThreshold, _maxSlippageBps) by caller
UpdateConfiguration(caller, newMinProfitThreshold, newMaxSlippageBps) ==
    /\ ~ loan.active
    /\ IF ConfigurationCheck(caller, newMaxSlippageBps) = ""
       THEN /\ minProfitThreshold' = newMinProfitThreshold
            /\ maxSlippageBps' = newMaxSlippageBps
       ELSE UNCHANGED <<minProfitThreshold, maxSlippageBps>>
    /\ UNCHANGED <<status, paused, totalArbitragesExecuted, totalProfitGenerated,
                   ownerReceived, loan, opLog, tokenBalance, ethBalance, ownerEth,
                   pfVars, pcVars, botVars>>

\* withdrawToken(asset, amount) by caller
WithdrawToken(caller, amount, transferOk) ==
    /\ ~ loan.active
    /\ IF WithdrawTokenCheck(caller, amount, transferOk) = ""
       THEN /\ tokenBalance' = tokenBalance - WithdrawAmount(amount)
            /\ ownerReceived' = ownerReceived + WithdrawAmount(amount)
       ELSE UNCHANGED <<tokenBalance, ownerReceived>>
    /\ UNCHANGED <<status, paused, minProfitThreshold, totalArbitragesExecuted,
                   totalProfitGenerated, loan, opLog, maxSlippageBps, ethBalance,
                   ownerEth, pfVars, pcVars, botVars>>

\* withdrawETH() by caller
WithdrawETH(caller, sendOk) ==
    /\ ~ loan.active
    /\ IF WithdrawETHCheck(caller, sendOk) = ""
       THEN /\ ownerEth' = ownerEth + ethBalance
            /\ ethBalance' = 0
       ELSE UNCHANGED <<ethBalance, ownerEth>>
    /\ UNCHANGED <<status, paused, minProfitThreshold, totalArbitragesExecuted,
                   totalProfitGenerated, ownerReceived, loan, opLog, maxSlippageBps,
                   tokenBalance, pfVars, pcVars, botVars>>

\* uniswapV3SwapCallback(amount0Delta, amount1Delta, data) by any caller, in
\* a transaction of its own or while a loan is in flight: the contract pays
\* the caller
UniswapV3SwapCallback(caller, amount0Delta, amount1Delta) ==
    /\ IF V3CallbackCheck(amount0Delta, amount1Delta) = ""
       THEN tokenBalance' = tokenBalance - AmountToPay(amount0Delta, amount1Delta)
       ELSE UNCHANGED tokenBalance
    /\ UNCHANGED <<status, paused, minProfitThreshold, totalArbitragesExecuted,
                   totalProfitGenerated, ownerReceived, loan, opLog, maxSlippageBps,
                   ethBalance, ownerEth, pfVars, pcVars, botVars>>

-----------------------------------------------------------------------------
(* Part III: ProfitCalculator (StrategyEngine.ts) and PathValidator.sol *)

\* the pairs and pools the hops of a path name: two V2 pairs (PairMetadata)
\* and a V3 pool (V3PoolMetadata, with the amount and the ticks its
\* simulated swap returns)
Venue(name) ==
    CASE name = "pairA" ->
           [token0 |-> "usdc", token1 |-> "weth", reserve0 |-> 100, reserve1 |-> 400,
            fee |-> 30]
      [] name = "pairB" ->
           [token0 |-> "dai", token1 |-> "usdc", reserve0 |-> 100, reserve1 |-> 100,
            fee |-> 30]
      [] name = "poolC" ->
           [token0 |-> "usdc", token1 |-> "weth", amountOut |-> 30, ticksCrossed |-> 1]
      [] name = "pairD" ->
           [token0 |-> "weth", token1 |-> "usdc", reserve0 |-> 400, reserve1 |-> 200,
            fee |-> 30]

\* a PathHop; venue is the pair or pool of the hop, "" when the hop has none
Hop(type, tokenIn, tokenOut, venue) ==
    [type |-> type, tokenIn |-> tokenIn, tokenOut |-> tokenOut, venue |-> venue]

\* the hops of the model: both directions of pairA, dai to usdc on pairB,
\* weth to usdc on the V3 pool, a V2 hop without pair, and a V2 hop whose
\* tokens are not those of its pair
HopSet ==
    { Hop("v2", "usdc", "weth", "pairA"), Hop("v2", "weth", "usdc", "pairA"),
      Hop("v2", "dai", "usdc", "pairB"),  Hop("v3", "weth", "usdc", "poolC"),
      Hop("v2", "usdc", "weth", ""),      Hop("v2", "dai", "weth", "pairA") }

\* ProfitCalculator.calculateDebt
calculateDebtRoundedUp(loanAmount) ==
    (loanAmount * FLASH_LOAN_FEE_FACTOR + 9999) \div 10000

calculateDebt(loanAmount) == (loanAmount * FLASH_LOAN_FEE_FACTOR) \div 10000

\* ProfitChecker.calculateDebt (Solidity, uint256)
ProfitCheckerDebt(principal) ==
    (principal * (BPS_DENOMINATOR + FLASH_LOAN_FEE_BPS)) \div BPS_DENOMINATOR

\* V2SwapSimulator.getAmountOut
getAmountOutSquared(amountIn, reserveIn, reserveOut, feeBps) ==
    LET feeFactor == 10000 - feeBps
        amountInWithFee == amountIn * feeFactor
    IN  (reserveOut * amountInWithFee)
            \div (reserveIn * 10000 + amountInWithFee * amountIn)

getAmountOutRoundedUp(amountIn, reserveIn, reserveOut, feeBps) ==
    LET feeFactor == 10000 - feeBps
        amountInWithFee == amountIn * feeFactor
        denominator == reserveIn * 10000 + amountInWithFee
    IN  (reserveOut * amountInWithFee + denominator - 1) \div denominator

getAmountOut(amountIn, reserveIn, reserveOut, feeBps) ==
    LET feeFactor == 10000 - feeBps
        amountInWithFee == amountIn * feeFactor
    IN  (reserveOut * amountInWithFee) \div (reserveIn * 10000 + amountInWithFee)

\* V3SwapSimulator.simulateSwapMultiTick: the result for the pool
simulateSwapMultiTick(amountIn, pool, zeroForOne) ==
    [amountOut |-> pool.amountOut, ticksCrossed |-> pool.ticksCrossed]

\* ProfitCalculator.getV2ReserveOrder; error "" unless it throws
getV2ReserveOrder(pair, tokenIn, tokenOut) ==
    LET token0Lower == ToLowerCase(pair.token0)
        tokenInLower == ToLowerCase(tokenIn)
        tokenOutLower == ToLowerCase(tokenOut)
    IN  IF tokenInLower = token0Lower /\ tokenOutLower = ToLowerCase(pair.token1)
        THEN [error |-> "", reserveIn |-> pair.reserve0, reserveOut |-> pair.reserve1]
        ELSE IF tokenInLower = ToLowerCase(pair.token1) /\ tokenOutLower = token0Lower
        THEN [error |-> "", reserveIn |-> pair.reserve1, reserveOut |-> pair.reserve0]
        ELSE [error |-> "Token mismatch", reserveIn |-> 0, reserveOut |-> 0]

RECURSIVE SumSwapGas(_)
\* GasEstimator.estimateArbitrageGas: the swap costs
SumSwapGas(gasInfo) ==
    IF gasInfo = <<>> THEN 0
    ELSE LET swap == Head(gasInfo)
         IN  (IF swap.type = "v2" THEN swap.baseGas
              ELSE swap.baseGas + swap.ticksCrossed * V3_TICK_CROSSING)
             + SumSwapGas(Tail(gasInfo))

\* GasEstimator.estimateArbitrageGas
estimateArbitrageGas(gasInfo) ==
    FLASH_LOAN_BASE + SumSwapGas(gasInfo) + TRANSFER_OVERHEAD + CALLBACK_OVERHEAD
        + SAFETY_BUFFER

\* simulatePath throws error after the swap simulations of gasInfo
Thrown(error, gasInfo) ==
    [ error |-> error, finalOutput |-> 0, intermediateAmounts |-> <<>>, totalGas |-> 0,
      simulated |-> Len(gasInfo) ]

\* simulatePath: the amount a hop's simulator is called with, which is the
\* loan amount at the first hop and the previous hop's output afterwards
HopInputLoan(currentAmount, intermediateAmounts) == intermediateAmounts[1]

HopInput(currentAmount, intermediateAmounts) == currentAmount

\* calculateProfit: `finalOutput - debt - gasCost`, on signed integers
NetProfitUnsigned(finalOutput, debt, gasCost) ==
    IF finalOutput >= debt + gasCost THEN finalOutput - debt - gasCost ELSE 0

NetProfit(finalOutput, debt, gasCost) == finalOutput - debt - gasCost

RECURSIVE HopLoop(_, _, _, _, _)
\* simulatePath: the loop over path.hops from hop i on, without a test that
\* the path has at most DefaultMaxDepth hops or that hop i starts with the
\* token hop i - 1 ended with; simulated counts the calls of the swap
\* simulators
HopLoop(hops, i, currentAmount, intermediateAmounts, gasInfo) ==
    IF i > Len(hops)
    THEN [ error |-> "", finalOutput |-> currentAmount,
           intermediateAmounts |-> intermediateAmounts,
           totalGas |-> estimateArbitrageGas(gasInfo), simulated |-> Len(gasInfo) ]
    ELSE LET hop == hops[i]
         IN  IF hop.type = "v2"
             THEN IF hop.venue = "" THEN Thrown("V2 hop missing pair", gasInfo)
                  ELSE LET pair == Venue(hop.venue)
                           tokenIn == ToLowerCase(hop.tokenIn)
                           order == getV2ReserveOrder(pair, tokenIn, hop.tokenOut)
                           amountOut ==
                               getAmountOut(HopInput(currentAmount, intermediateAmounts),
                                            order.reserveIn, order.reserveOut, pair.fee)
                       IN  IF order.error # "" THEN Thrown(order.error, gasInfo)
                           ELSE HopLoop(hops, i + 1, amountOut,
                                    Append(intermediateAmounts, amountOut),
                                    Append(gasInfo, [type |-> "v2", baseGas |-> V2HopGas,
                                                     ticksCrossed |-> 0]))
             ELSE IF hop.venue = "" THEN Thrown("V3 hop missing pool", gasInfo)
                  ELSE LET pool == Venue(hop.venue)
                           tokenIn == ToLowerCase(hop.tokenIn)
                           zeroForOne == tokenIn = ToLowerCase(pool.token0)
                           result ==
                               simulateSwapMultiTick(
                                   HopInput(currentAmount, intermediateAmounts), pool,
                                   zeroForOne)
                       IN  HopLoop(hops, i + 1, result.amountOut,
                               Append(intermediateAmounts, result.amountOut),
                               Append(gasInfo, [type |-> "v3", baseGas |-> V3HopGas,
                                                ticksCrossed |-> result.ticksCrossed]))

\* ProfitCalculator.simulatePath
simulatePath(loanAmount, path) == HopLoop(path, 1, loanAmount, <<loanAmount>>, <<>>)

\* PathValidator.isCycle
isCycle(hops) ==
    IF Len(hops) = 0 THEN FALSE ELSE hops[1].tokenIn = hops[Len(hops)].tokenOut

\* PathValidator.hasDuplicates
hasDuplicates(hops) ==
    \E i \in 1..Len(hops), j \in 1..Len(hops) : i < j /\ hops[i].venue = hops[j].venue

\* PathValidator.hasValidAddresses; "" is address(0)
hasValidAddresses(hops) ==
    \A i \in 1..Len(hops) :
        hops[i].venue # "" /\ hops[i].tokenIn # "" /\ hops[i].tokenOut # ""

\* PathValidator.areHopsConnected, which validatePath does not call
areHopsConnected(hops) ==
    \A i \in 1..(Len(hops) - 1) : hops[i].tokenOut = hops[i + 1].tokenIn

\* PathValidator.validatePath: the reason it returns, "" when the path is
\* valid
validatePath(hops, flashToken, flashAmount) ==
    IF Len(hops) > MAX_PATH_LENGTH THEN "Path too long"
    ELSE IF Len(hops) < MIN_PATH_LENGTH THEN "Path too short"
    ELSE IF ~ isCycle(hops) THEN "Path is not a cycle"
    ELSE IF hasDuplicates(hops) THEN "Path contains duplicate hops"
    ELSE IF ~ hasValidAddresses(hops) THEN "Path contains zero addresses"
    ELSE IF flashToken = "" \/ flashAmount = 0 THEN "Invalid flash loan parameters"
    ELSE ""

\* before any call of the ProfitCalculator or of validatePath
NoSimulation == [fn |-> ""]

\* the record of a call of fn with loanAmount and path: the error it threw
\* or the reason it returned, the number of swap-simulator calls it made,
\* the amounts after each hop, its final output, and the debt, the gas cost
\* and the net profit calculateProfit reports
SimRecord(fn, loanAmount, path, r, debt, gasCost, netProfit) ==
    [ fn |-> fn, loanAmount |-> loanAmount, path |-> path, error |-> r.error,
      simulated |-> r.simulated, intermediateAmounts |-> r.intermediateAmounts,
      finalOutput |-> r.finalOutput, debt |-> debt, gasCost |-> gasCost,
      netProfit |-> netProfit ]

\* profitCalculator.simulatePath(loanAmount, path)
SimulatePath(loanAmount, path) ==
    /\ sim' = SimRecord("simulatePath", loanAmount, path, simulatePath(loanAmount, path),
                        0, 0, 0)
    /\ UNCHANGED <<pfVars, faVars, botVars>>

\* profitCalculator.calculateProfit(loanAmount, path, ...), with gasCost the
\* value getGasCostInAsset returns; nothing is reported when simulatePath
\* throws
CalculateProfit(loanAmount, path, gasCost) ==
    /\ LET r == simulatePath(loanAmount, path)
           debt == calculateDebt(loanAmount)
           netProfit == NetProfit(r.finalOutput, debt, gasCost)
       IN  sim' = IF r.error # ""
                  THEN SimRecord("calculateProfit", loanAmount, path, r, 0, 0, 0)
                  ELSE SimRecord("calculateProfit", loanAmount, path, r, debt, gasCost,
                                 netProfit)
    /\ UNCHANGED <<pfVars, faVars, botVars>>

\* PathValidator.validatePath(Path(hops, flashToken, flashAmount))
ValidatePath(hops, flashToken, flashAmount) ==
    /\ sim' = SimRecord("validatePath", flashAmount, hops,
                        Thrown(validatePath(hops, flashToken, flashAmount), <<>>),
                        0, 0, 0)
    /\ UNCHANGED <<pfVars, faVars, botVars>>

\* ProfitCalculator.calculateDebt(loanAmount) off chain and
\* ProfitChecker.calculateDebt(loanAmount) on chain
CalculateDebt(loanAmount) ==
    /\ sim' = [ fn |-> "calculateDebt", loanAmount |-> loanAmount,
                debt |-> calculateDebt(loanAmount),
                debtOnChain |-> ProfitCheckerDebt(loanAmount) ]
    /\ UNCHANGED <<pfVars, faVars, botVars>>

\* a V2 pair seen from one side, before any quote or swap
NewPair(reserveIn, reserveOut, feeBps) ==
    [ fn |-> "pair", reserveIn |-> reserveIn, reserveOut |-> reserveOut,
      feeBps |-> feeBps, prevIn |-> 0, prevOut |-> 0, amountIn |-> 0, amountOut |-> 0,
      kBefore |-> reserveIn * reserveOut, kAfter |-> reserveIn * reserveOut,
      swaps |-> 0 ]

\* V2SwapSimulator.getAmountOut(amountIn, reserveIn, reserveOut, fee) on the
\* pair's reserves; the quote before it on the same reserves is kept
QuoteV2(amountIn) ==
    /\ sim' = [sim EXCEPT !.fn = "getAmountOut",
                          !.prevIn = IF sim.fn = "getAmountOut" THEN sim.amountIn ELSE 0,
                          !.prevOut = IF sim.fn = "getAmountOut" THEN sim.amountOut ELSE 0,
                          !.amountIn = amountIn,
                          !.amountOut = getAmountOut(amountIn, sim.reserveIn,
                                                     sim.reserveOut, sim.feeBps)]
    /\ UNCHANGED <<pfVars, faVars, botVars>>

\* a swap of amountIn on the pair at the output the formula gives: the pair
\* receives amountIn and pays amountOut; an output of 0 is refused
\* (InsufficientOutput)
SwapV2(amountIn) ==
    /\ sim.swaps < MaxPairSwaps
    /\ LET amountOut == getAmountOut(amountIn, sim.reserveIn, sim.reserveOut, sim.feeBps)
       IN  sim' = IF amountOut = 0
                  THEN [sim EXCEPT !.fn = "refused"]
                  ELSE [ NewPair(sim.reserveIn + amountIn, sim.reserveOut - amountOut,
                                 sim.feeBps)
                         EXCEPT !.fn = "swap", !.kBefore = sim.reserveIn * sim.reserveOut,
                                !.amountIn = amountIn, !.amountOut = amountOut,
                                !.swaps = sim.swaps + 1 ]
    /\ UNCHANGED <<pfVars, faVars, botVars>>

-----------------------------------------------------------------------------
(* Part IV: PriceGraphBuilder (bot/core/PriceGraphBuilder.ts,              *)
(* src/unnamed/part_002) and the pair filter of PairFetcher.  Reserves are *)
(* counted in units of 5 * 10^20 wei (500 tokens of 18 decimals), so that  *)
(* MIN_RESERVE_NORMALIZED (1000 * 10^18) is 2 units.                       *)

\* PAIR_FILTER_CONFIG
MIN_RESERVE_NORMALIZED == 2
MAX_RESERVE_RATIO == 100000

\* Map.prototype.set(key, value) on a map held as a function
MapSet(map, key, value) ==
    [k \in DOMAIN map \cup {key} |-> IF k = key THEN value ELSE map[k]]

\* a new Map()
EmptyMap == [k \in {} |-> 0]

\* a PairEdge of a V2 pair (reserve0, reserve1; no liquidity)
V2Edge(pairAddress, dexName, token0, token1, reserve0, reserve1) ==
    [ pair |-> pairAddress, dexType |-> "V2", dexName |-> dexName,
      tokenIn |-> token0, tokenOut |-> token1,
      reserve0 |-> reserve0, reserve1 |-> reserve1, fee |-> 30,
      token0 |-> token0, token1 |-> token1 ]

\* a PairEdge of a V3 pool (liquidity; no reserves)
V3Edge(pairAddress, dexName, token0, token1, liquidity) ==
    [ pair |-> pairAddress, dexType |-> "V3", dexName |-> dexName,
      tokenIn |-> token0, tokenOut |-> token1,
      liquidity |-> liquidity, fee |-> 5,
      token0 |-> token0, token1 |-> token1 ]

\* state after `new PriceGraphBuilder()` and `new PairFetcher(...)`
InitPriceGraph ==
    /\ vertices = EmptyMap
    /\ edgeMap = EmptyMap
    /\ borrowableAssets = {}
    /\ validPairs = <<>>

\* PriceGraphBuilder.addToken
AddToken(token) ==
    /\ vertices' = MapSet(vertices, ToLowerCase(token.address), token)
    /\ borrowableAssets' = IF token.isBorrowable
                           THEN borrowableAssets \cup {ToLowerCase(token.address)}
                           ELSE borrowableAssets
    /\ UNCHANGED <<edgeMap, validPairs, pfVars, faVars, pcVars, optVars, scanVars, extVars>>

\* PriceGraphBuilder.addDirectedEdge: the map after the edge is pushed
addDirectedEdge(map, edge) ==
    LET key == ToLowerCase(edge.tokenIn)
        list == IF key \in DOMAIN map THEN map[key] ELSE <<>>
    IN  MapSet(map, key, Append(list, edge))

\* PriceGraphBuilder.addPair: the map after both directions are added
addPair(map, edge) ==
    LET token0Lower == ToLowerCase(edge.token0)
        token1Lower == ToLowerCase(edge.token1)
    IN  addDirectedEdge(
            addDirectedEdge(map, [edge EXCEPT !.tokenIn = token0Lower,
                                              !.tokenOut = token1Lower]),
            [edge EXCEPT !.tokenIn = token1Lower, !.tokenOut = token0Lower])

\* PriceGraphBuilder.getAllEdges (the source lists the keys in insertion
\* order; here the keys are listed in the order of `keys`)
RECURSIVE AllEdgesOf(_, _)
AllEdgesOf(map, keys) ==
    IF keys = <<>> THEN <<>>
    ELSE (IF Head(keys) \in DOMAIN map THEN map[Head(keys)] ELSE <<>>)
         \o AllEdgesOf(map, Tail(keys))

getAllEdges == AllEdgesOf(edgeMap, <<"a", "b", "c">>)

\* PriceGraphBuilder.getNeighbors
getNeighbors(token) ==
    LET list == IF ToLowerCase(token) \in DOMAIN edgeMap
                THEN edgeMap[ToLowerCase(token)] ELSE <<>>
    IN  [i \in 1..Len(list) |-> list[i].tokenOut]

\* getStatistics: the sum of the degrees of the vertices
RECURSIVE TotalDegree(_)
TotalDegree(keySet) ==
    IF keySet = {} THEN 0
    ELSE LET k == CHOOSE x \in keySet : TRUE
         IN  Len(getNeighbors(k)) + TotalDegree(keySet \ {k})

\* PriceGraphBuilder.getStatistics; allEdges.length is even (addPair pushes
\* two edges, clear removes all), so its half is an integer; averageDegree
\* is the ratio totalDegree / tokenCount, held as its two terms
getStatistics ==
    LET IsV2(e) == e.dexType = "V2"
        IsV3(e) == e.dexType = "V3"
    IN  [ tokenCount |-> Cardinality(DOMAIN vertices),
          pairCount |-> Len(getAllEdges) \div 2,
          v2PairCount |-> Len(SelectSeq(getAllEdges, IsV2)) \div 2,
          v3PairCount |-> Len(SelectSeq(getAllEdges, IsV3)) \div 2,
          borrowableAssetCount |-> Cardinality(borrowableAssets),
          totalDegree |-> TotalDegree(DOMAIN vertices) ]

\* PriceGraphBuilder.addPair, while the graph holds fewer than MaxAdds pairs
AddPair(edge) ==
    /\ Len(getAllEdges) < 2 * MaxAdds
    /\ edgeMap' = addPair(edgeMap, edge)
    /\ UNCHANGED <<vertices, borrowableAssets, validPairs, pfVars, faVars, pcVars, optVars, scanVars, extVars>>

\* PriceGraphBuilder.clear
Clear ==
    /\ vertices' = EmptyMap
    /\ edgeMap' = EmptyMap
    /\ borrowableAssets' = {}
    /\ UNCHANGED <<validPairs, pfVars, faVars, pcVars, optVars, scanVars, extVars>>

\* fetchPairMetadata returned null (the fetch failed)
NullPair == [address |-> "null", token0 |-> "", token1 |-> "",
             reserve0 |-> 0, reserve1 |-> 0]

\* PairFetcher.isValidPair
isValidPair(pair) ==
    IF pair.reserve0 <= 0 \/ pair.reserve1 <= 0 THEN FALSE
    ELSE LET ratio0 == pair.reserve0 \div pair.reserve1
             ratio1 == pair.reserve1 \div pair.reserve0
             liquidityProduct == pair.reserve0 * pair.reserve1
         IN  IF ratio0 > MAX_RESERVE_RATIO \/ ratio1 > MAX_RESERVE_RATIO THEN FALSE
             ELSE IF liquidityProduct < MIN_RESERVE_NORMALIZED * MIN_RESERVE_NORMALIZED
                  THEN FALSE
                  ELSE TRUE

\* PairFetcher.fetchPairsFromDex on the metadata fetched for the factory's
\* pairs: failed fetches and invalid pairs are filtered out, the rest cached
FetchPairsFromDex(pairMetadataResults) ==
    /\ LET Kept(pair) == pair # NullPair /\ isValidPair(pair)
       IN  validPairs' = SelectSeq(pairMetadataResults, Kept)
    /\ UNCHANGED <<vertices, edgeMap, borrowableAssets, pfVars, faVars, pcVars, optVars, scanVars, extVars>>

-----------------------------------------------------------------------------
(* Part V: ProfitOptimizer (bot/core/ProfitOptimizer.ts).  The file is not *)
(* part of the sources: findOptimalLoanSize is modelled from its           *)
(* description (state machine, Newton step, clamp, convergence tests,      *)
(* golden-section fallback); the profit it evaluates is the                *)
(* ProfitCalculator's.                                                     *)

\* iterations of the golden-section fallback
GoldenSectionIterations == 20

\* the optimizer before findOptimalLoanSize is called
NoOptimization == [state |-> "Idle"]

InitOptimizer == optimizer = NoOptimization

\* ProfitCalculator.calculateProfit(...).netProfit for a path that
\* simulates without error
calculateProfit(loanAmount, path, gasCost) ==
    NetProfit(simulatePath(loanAmount, path).finalOutput, calculateDebt(loanAmount),
              gasCost)

\* the upper end of the domain: min(maxLoanAmount, availableLiquidity)
MaxLoan(cfg) ==
    IF cfg.maxLoanAmount < cfg.availableLiquidity
    THEN cfg.maxLoanAmount ELSE cfg.availableLiquidity

\* clamp into the domain [minLoanAmount, min(maxLoanAmount, availableLiquidity)]
ClampAbove(loanSize, cfg) ==
    IF loanSize > MaxLoan(cfg) THEN MaxLoan(cfg) ELSE loanSize

Clamp(loanSize, cfg) ==
    IF loanSize < cfg.minLoanAmount THEN cfg.minLoanAmount
    ELSE IF loanSize > MaxLoan(cfg) THEN MaxLoan(cfg)
    ELSE loanSize

\* the numerators of the central differences at L with step h:
\* dP/dL = First / (2h), d2P/dL2 = Second / h^2
FirstDifference(o) ==
    calculateProfit(o.L + o.cfg.derivativeStep, o.path, o.gasCost)
        - calculateProfit(o.L - o.cfg.derivativeStep, o.path, o.gasCost)

SecondDifference(o) ==
    calculateProfit(o.L + o.cfg.derivativeStep, o.path, o.gasCost)
        - 2 * calculateProfit(o.L, o.path, o.gasCost)
        + calculateProfit(o.L - o.cfg.derivativeStep, o.path, o.gasCost)

\* the sampled second derivative at loanSize is negative (a maximum, not a
\* minimum): the test a converged point has to pass to be reported
ConcaveAnywhere(o, loanSize) == TRUE

ConcaveAt(o, loanSize) == SecondDifference([o EXCEPT !.L = loanSize]) < 0

\* floor(a / b) for b # 0
FloorDiv(a, b) == IF b > 0 THEN a \div b ELSE (0 - a) \div (0 - b)

\* the Newton step (dP/dL) / (d2P/dL2) = h * First / (2 * Second), as an
\* integer: rounded down, or up when roundUp
NewtonStep(o, roundUp) ==
    LET numerator == o.cfg.derivativeStep * FirstDifference(o)
        denominator == 2 * SecondDifference(o)
        floor == FloorDiv(numerator, denominator)
    IN  IF roundUp /\ floor * denominator # numerator THEN floor + 1 ELSE floor

\* |a|
Abs(a) == IF a < 0 THEN 0 - a ELSE a

\* the iteration budget is used up
BudgetNeverSpent(o) == FALSE

BudgetSpent(o) == o.iteration >= o.cfg.maxIterations

\* findOptimalLoanSize is called: Initialized, at the clamped initial guess
FindOptimalLoanSize(path, gasCost, cfg, initialGuess) ==
    /\ optimizer.state \in {"Idle", "Done"}
    /\ optimizer' = [ state |-> "Initialized", path |-> path, gasCost |-> gasCost,
                      cfg |-> cfg, L |-> Clamp(initialGuess, cfg), iteration |-> 0,
                      lo |-> cfg.minLoanAmount, hi |-> MaxLoan(cfg),
                      fallbackSteps |-> 0, movedTo |-> {Clamp(initialGuess, cfg)},
                      optimalLoanSize |-> 0, convergenceReason |-> "",
                      success |-> FALSE, initialGuess |-> initialGuess,
                      clampedSteps |-> 0 ]
    /\ UNCHANGED <<pfVars, faVars, pcVars, pgVars, scanVars, extVars>>

\* the loop is entered
BeginIterating ==
    /\ optimizer.state = "Initialized"
    /\ optimizer' = [optimizer EXCEPT !.state = "Iterating"]
    /\ UNCHANGED <<pfVars, faVars, pcVars, pgVars, scanVars, extVars>>

\* one pass of the loop: out of budget; not concave; or a Newton step,
\* clamped, and the convergence tests; a converged point that is not
\* concave is left to the fallback search
NewtonIteration(roundUp) ==
    /\ optimizer.state = "Iterating"
    /\ IF BudgetSpent(optimizer)
       THEN optimizer' = [optimizer EXCEPT !.state = "MaxIterationsReached"]
       ELSE IF SecondDifference(optimizer) >= 0
       THEN optimizer' = [optimizer EXCEPT !.state = "FallbackInvoked"]
       ELSE \E raw \in {optimizer.L - NewtonStep(optimizer, roundUp)} :
            \E next \in {Clamp(raw, optimizer.cfg)} :
            \E converged \in
                   {\/ Abs(next - optimizer.L) < optimizer.cfg.toleranceAbsolute
                    \/ FirstDifference(optimizer) = 0} :
              optimizer' =
                  [optimizer EXCEPT
                     !.state = IF ~ converged THEN "Iterating"
                               ELSE IF ConcaveAt(optimizer, next) THEN "Converged"
                               ELSE "FallbackInvoked",
                     !.L = next,
                     !.iteration = optimizer.iteration + 1,
                     !.movedTo = optimizer.movedTo \cup {next},
                     !.clampedSteps = optimizer.clampedSteps
                                          + (IF raw # next THEN 1 ELSE 0)]
    /\ UNCHANGED <<pfVars, faVars, pcVars, pgVars, scanVars, extVars>>

\* the fallback search is not finished
Searching(o) ==
    /\ o.state \in {"MaxIterationsReached", "FallbackInvoked"}
    /\ o.hi - o.lo > o.cfg.toleranceAbsolute
    /\ o.fallbackSteps < GoldenSectionIterations

\* the interval one golden-section step leaves
Narrow(o) ==
    LET width == ((o.hi - o.lo) * 618) \div 1000
        c == o.hi - width
        d == o.lo + width
    IN  IF calculateProfit(c, o.path, o.gasCost) > calculateProfit(d, o.path, o.gasCost)
        THEN <<o.lo, d>>
        ELSE <<c, o.hi>>

\* one step of the golden-section search over the domain
FallbackStep ==
    /\ Searching(optimizer)
    /\ optimizer' = [optimizer EXCEPT !.lo = Narrow(optimizer)[1],
                                      !.hi = Narrow(optimizer)[2],
                                      !.fallbackSteps = optimizer.fallbackSteps + 1]
    /\ UNCHANGED <<pfVars, faVars, pcVars, pgVars, scanVars, extVars>>

\* the result is reported: the converged L, or the middle of the interval
\* the fallback search ended with
Finish ==
    /\ \/ optimizer.state = "Converged"
       \/ /\ optimizer.state \in {"MaxIterationsReached", "FallbackInvoked"}
          /\ ~ Searching(optimizer)
    /\ LET best == IF optimizer.state = "Converged" THEN optimizer.L
                   ELSE (optimizer.lo + optimizer.hi) \div 2
           profit == calculateProfit(best, optimizer.path, optimizer.gasCost)
       IN  optimizer' = [optimizer EXCEPT
                           !.state = "Done",
                           !.optimalLoanSize = best,
                           !.movedTo = optimizer.movedTo \cup {best},
                           !.convergenceReason = optimizer.state,
                           !.success = profit > 0 /\ profit >= optimizer.cfg.minProfit]
    /\ UNCHANGED <<pfVars, faVars, pcVars, pgVars, scanVars, extVars>>

-----------------------------------------------------------------------------
(* Part VI: ArbitrageScanner.scan (bot/core/ArbitrageScanner.ts as listed  *)
(* in README_PHASE_4.md): the path-finding loop over the assets, the       *)
(* optimization loop over the paths, ranking and the returned list.  What  *)
(* findCycles gives for an asset (cycles, or an exception) comes with the  *)
(* asset; the optimizer's result for a path is the ProfitCalculator's      *)
(* profit at a loan size of the domain, or the exception simulatePath      *)
(* throws.                                                                 *)

\* the scanner before scan() is called
NoScan == [state |-> "idle"]

InitScanner == scan = NoScan

\* an ArbitragePath of the given hops
ScanPath(hops) ==
    [ hops |-> hops,
      tokenAddresses |-> <<hops[1].tokenIn>> \o [i \in 1..Len(hops) |-> hops[i].tokenOut] ]

\* assets.find(a => a.address.toLowerCase() === assetAddress.toLowerCase()):
\* the position of the asset, 0 when there is none
RECURSIVE FindAsset(_, _, _)
FindAsset(assets, assetAddress, i) ==
    IF i > Len(assets) THEN 0
    ELSE IF ToLowerCase(assets[i].address) = ToLowerCase(assetAddress) THEN i
    ELSE FindAsset(assets, assetAddress, i + 1)

\* Array.prototype.slice(0, n)
Slice(s, n) == IF Len(s) <= n THEN s ELSE SubSeq(s, 1, n)

\* the position a new opportunity takes in a list sorted by profit
\* descending, behind those of equal profit
RECURSIVE InsertByProfit(_, _)
InsertByProfit(sorted, opp) ==
    IF sorted = <<>> THEN <<opp>>
    ELSE IF Head(sorted).netProfitUsd >= opp.netProfitUsd
         THEN <<Head(sorted)>> \o InsertByProfit(Tail(sorted), opp)
         ELSE <<opp>> \o sorted

\* opportunities.sort((a, b) => b...netProfitUsd - a...netProfitUsd)
RECURSIVE SortByProfit(_)
SortByProfit(opportunities) ==
    IF opportunities = <<>> THEN <<>>
    ELSE InsertByProfit(SortByProfit(SubSeq(opportunities, 1, Len(opportunities) - 1)),
                        opportunities[Len(opportunities)])

\* scan() is called: statistics reset, assets fetched and filtered, the
\* graph built; the loop over the assets is about to start
Scan(assets, scannerConfig) ==
    /\ scan.state \in {"idle", "returned", "rejected"}
    /\ scan' = [ state |-> "pathFinding", config |-> scannerConfig, assets |-> assets,
                 assetIdx |-> 0, allPaths |-> <<>>, pathsToOptimize |-> <<>>,
                 pathIdx |-> 0, opportunities |-> <<>>, caught |-> 0,
                 stats |-> [assetsScanned |-> Len(assets), pathsFound |-> 0,
                            pathsOptimized |-> 0, profitablePathsFound |-> 0],
                 result |-> <<>> ]
    /\ UNCHANGED <<pfVars, faVars, pcVars, pgVars, optVars, extVars>>

\* one pass of `for (const asset of assets)`: findCycles and push; an
\* exception is not caught and ends scan()
FindCyclesOfAsset ==
    /\ scan.state = "pathFinding"
    /\ scan.assetIdx < Len(scan.assets)
    /\ LET asset == scan.assets[scan.assetIdx + 1]
       IN  scan' = IF asset.findCyclesThrows
                   THEN [scan EXCEPT !.state = "rejected"]
                   ELSE [scan EXCEPT !.assetIdx = scan.assetIdx + 1,
                                     !.allPaths = scan.allPaths \o asset.cycles]
    /\ UNCHANGED <<pfVars, faVars, pcVars, pgVars, optVars, extVars>>

\* after the loop: removeDuplicates, statistics, slice(0, maxPathsToOptimize)
BeginOptimization ==
    /\ scan.state = "pathFinding"
    /\ scan.assetIdx = Len(scan.assets)
    /\ LET unique == removeDuplicates(scan.allPaths)
       IN  scan' = [scan EXCEPT
                      !.state = "optimizing",
                      !.allPaths = unique,
                      !.stats.pathsFound = Len(unique),
                      !.pathsToOptimize = Slice(unique, scan.config.maxPathsToOptimize)]
    /\ UNCHANGED <<pfVars, faVars, pcVars, pgVars, optVars, extVars>>

\* one pass of `for (const path of pathsToOptimize)`: the asset is looked
\* up, the optimizer is run inside try/catch, a profitable result is pushed
OptimizePathResult(path, loanSize) ==
    LET assetAt == FindAsset(scan.assets, path.tokenAddresses[1], 1)
        simulated == simulatePath(loanSize, path.hops)
        netProfitUsd == calculateProfit(loanSize, path.hops, 0)
        success == netProfitUsd > 0 /\ netProfitUsd >= scan.config.minProfitUsd
        opportunity == [ path |-> path, optimalLoanSize |-> loanSize,
                         netProfitUsd |-> netProfitUsd,
                         asset |-> scan.assets[assetAt].address, rank |-> 0 ]
    IN  IF assetAt = 0
        THEN [scan EXCEPT !.pathIdx = scan.pathIdx + 1]
        ELSE IF simulated.error # ""
        THEN [scan EXCEPT !.pathIdx = scan.pathIdx + 1, !.caught = scan.caught + 1]
        ELSE IF success /\ netProfitUsd >= scan.config.minProfitUsd
        THEN [scan EXCEPT !.pathIdx = scan.pathIdx + 1,
                          !.stats.pathsOptimized = scan.stats.pathsOptimized + 1,
                          !.stats.profitablePathsFound =
                              scan.stats.profitablePathsFound + 1,
                          !.opportunities = Append(scan.opportunities, opportunity)]
        ELSE [scan EXCEPT !.pathIdx = scan.pathIdx + 1,
                          !.stats.pathsOptimized = scan.stats.pathsOptimized + 1]

OptimizePath(loanSize) ==
    /\ scan.state = "optimizing"
    /\ scan.pathIdx < Len(scan.pathsToOptimize)
    /\ scan' = OptimizePathResult(scan.pathsToOptimize[scan.pathIdx + 1], loanSize)
    /\ UNCHANGED <<pfVars, faVars, pcVars, pgVars, optVars, extVars>>

\* after the loop: sort by profit, assign ranks, slice(0, maxResultsToReturn),
\* return
RankAndReturn ==
    /\ scan.state = "optimizing"
    /\ scan.pathIdx = Len(scan.pathsToOptimize)
    /\ LET sorted == SortByProfit(scan.opportunities)
           ranked == [i \in 1..Len(sorted) |-> [sorted[i] EXCEPT !.rank = i]]
       IN  scan' = [scan EXCEPT
                      !.state = "returned",
                      !.opportunities = ranked,
                      !.result = Slice(ranked, scan.config.maxResultsToReturn)]
    /\ UNCHANGED <<pfVars, faVars, pcVars, pgVars, optVars, extVars>>

-----------------------------------------------------------------------------
(* Part VII: V3SwapSimulator.simulateSwapMultiTick                          *)
(* (bot/core/V3SwapSimulator.ts).  The file is not among the sources, only  *)
(* its description and signature are (README_PHASE_5.md): the traversal is  *)
(* modelled from the specification.  Ticks are counted in tick spacings.    *)

NoTraversal == [state |-> "Idle"]

\* fee tiers are hundredths of a basis point
FeeDenominator == 1000000

\* "1. Apply fee to input"
ApplyFee(amountIn, fee) == (amountIn * (FeeDenominator - fee)) \div FeeDenominator

\* a tick search that does not leave the current tick
TicksAheadOrHere(tick, zeroForOne, ticks) ==
    {t \in DOMAIN ticks : IF zeroForOne THEN t <= tick ELSE t >= tick}

\* the initialized ticks beyond `tick` in the direction of the swap:
\* the price falls when token0 is sold
TicksAhead(tick, zeroForOne, ticks) ==
    {t \in DOMAIN ticks : IF zeroForOne THEN t < tick ELSE t > tick}

\* "Find next initialized tick"
NextInitializedTick(tick, zeroForOne, ticks) ==
    LET ahead == TicksAhead(tick, zeroForOne, ticks)
    IN  IF zeroForOne
        THEN CHOOSE t \in ahead : \A u \in ahead : u <= t
        ELSE CHOOSE t \in ahead : \A u \in ahead : t <= u

\* "Calculate swap to tick boundary": the input the active liquidity
\* absorbs before the price reaches the boundary
AmountToBoundary(liquidity, tick, boundary) ==
    liquidity * (IF boundary < tick THEN tick - boundary ELSE boundary - tick)

\* "cross tick and update liquidity": liquidityNet is added when the tick
\* is crossed left to right and subtracted right to left
CrossTick(liquidity, liquidityNet, zeroForOne) ==
    IF zeroForOne THEN liquidity - liquidityNet ELSE liquidity + liquidityNet

\* the method is static and keeps nothing between calls: one call is followed
SimulateSwapMultiTick(amountIn, pool, zeroForOne, ticks) ==
    /\ v3.state = "Idle"
    /\ v3' = [state |-> "Swapping",
              pool |-> pool,
              zeroForOne |-> zeroForOne,
              ticks |-> ticks,
              tick |-> pool.tick,
              liquidity |-> pool.liquidity,
              remaining |-> ApplyFee(amountIn, pool.fee),
              iterations |-> 0,
              ticksCrossed |-> 0]
    /\ UNCHANGED <<pfVars, faVars, pcVars, pgVars, optVars, scanVars,
                   hopSearch, engine, bot, pairCache, assetScan>>

\* one evaluation of the loop condition and, while input remains, one
\* pass of the loop body
TraverseTick ==
    /\ v3.state = "Swapping"
    /\ v3' =
         IF v3.remaining = 0
         THEN [v3 EXCEPT !.state = "Done"]
         ELSE IF v3.liquidity <= 0
         THEN [v3 EXCEPT !.state = "Invalid"]
         ELSE IF TicksAhead(v3.tick, v3.zeroForOne, v3.ticks) = {}
         THEN [v3 EXCEPT !.remaining = 0,
                         !.iterations = v3.iterations + 1]
         ELSE LET boundary == NextInitializedTick(v3.tick, v3.zeroForOne, v3.ticks)
                  needed == AmountToBoundary(v3.liquidity, v3.tick, boundary)
              IN  IF v3.remaining > needed
                  THEN [v3 EXCEPT
                          !.tick = boundary,
                          !.liquidity = CrossTick(v3.liquidity, v3.ticks[boundary],
                                                  v3.zeroForOne),
                          !.remaining = v3.remaining - needed,
                          !.ticksCrossed = v3.ticksCrossed + 1,
                          !.iterations = v3.iterations + 1]
                  ELSE [v3 EXCEPT !.remaining = 0,
                                  !.iterations = v3.iterations + 1]
    /\ UNCHANGED <<pfVars, faVars, pcVars, pgVars, optVars, scanVars,
                   hopSearch, engine, bot, pairCache, assetScan>>

-----------------------------------------------------------------------------
(* Part VIII: the strategies MultiHopCrossDex                                *)
(* (bot/strategies/MultiHopCrossDex.ts) and TriangularArbitrage             *)
(* (src/unnamed/part_003).  A strategy is handed the graph as a parameter:  *)
(* here `g` is the map PriceGraphBuilder.edges.  Amounts are counted in     *)
(* whole USDC (10^6 base units).                                            *)

\* MultiHopCrossDex: MIN_HOPS, MAX_HOPS, MIN_PROFIT_PER_HOP_BPS; maxCycles; slice(0, 20)
MIN_HOPS == 4
MAX_HOPS == 6
MIN_PROFIT_PER_HOP_BPS == 10
MaxCycles == 100
TopMultiHop == 20
\* `const fee = hop.fee || 3000`
DefaultHopFee == 3000
\* parseUnits("10000", 6), in whole USDC
StrategyFlashAmount == 10000

\* PriceGraphBuilder.getNeighbors on the map g
GraphNeighbors(g, token) ==
    LET list == IF ToLowerCase(token) \in DOMAIN g THEN g[ToLowerCase(token)] ELSE <<>>
    IN  [i \in 1..Len(list) |-> list[i].tokenOut]

\* PriceGraphBuilder.getEdges on the map g
GraphEdges(g, tokenIn, tokenOut) ==
    LET list == IF ToLowerCase(tokenIn) \in DOMAIN g THEN g[ToLowerCase(tokenIn)] ELSE <<>>
    IN  SelectSeq(list, LAMBDA e : ToLowerCase(e.tokenOut) = ToLowerCase(tokenOut))

\* PriceGraphBuilder.hasEdge
GraphHasEdge(g, tokenIn, tokenOut) == Len(GraphEdges(g, tokenIn, tokenOut)) > 0

\* the liquidity getBestDexForPair compares: liquidity, or reserve0 * reserve1
EdgeLiquidity(e) ==
    IF "liquidity" \in DOMAIN e THEN e.liquidity ELSE e.reserve0 * e.reserve1

\* PriceGraphBuilder.getBestDexForPair: the first edge of the highest
\* liquidity; <<>> stands for null
GraphBestDex(g, tokenIn, tokenOut) ==
    LET list == GraphEdges(g, tokenIn, tokenOut)
    IN  IF list = <<>> THEN <<>>
        ELSE <<list[CHOOSE i \in 1..Len(list) :
                       /\ \A j \in 1..Len(list) :
                             EdgeLiquidity(list[j]) <= EdgeLiquidity(list[i])
                       /\ \A j \in 1..(i - 1) :
                             EdgeLiquidity(list[j]) < EdgeLiquidity(list[i])]>>

\* amount.mul(1000000 - fee).div(1000000), as amount less the fee rounded up
LessFee(amount, fee) ==
    amount - ((amount * fee + FeeDenominator - 1) \div FeeDenominator)

\* calculateProfit of both strategies: every hop takes its fee and leaves
\* `kept` percent (97 for MultiHopCrossDex, 98 for TriangularArbitrage)
RECURSIVE AfterHops(_, _, _)
AfterHops(amount, hops, kept) ==
    IF hops = <<>> THEN amount
    ELSE AfterHops((LessFee(amount, IF Head(hops).fee = 0 THEN DefaultHopFee
                                    ELSE Head(hops).fee) * kept) \div 100,
                   Tail(hops), kept)

StrategyProfit(hops, flashAmount, kept) ==
    LET debt == (flashAmount * (BPS_DENOMINATOR + FLASH_LOAN_FEE_BPS)) \div BPS_DENOMINATOR
        netProfit == AfterHops(flashAmount, hops, kept) - debt
    IN  IF netProfit > 0 THEN netProfit ELSE 0

\* the hops evaluateCycle builds for the token list `cycle`; a hop without
\* a DEX is left out (TriangularArbitrage `continue`s; MultiHopCrossDex
\* returns null, see MultiHopEvaluateCycle)
RECURSIVE CycleHops(_, _, _)
CycleHops(g, cycle, i) ==
    IF i >= Len(cycle) THEN <<>>
    ELSE LET bestDex == GraphBestDex(g, cycle[i], cycle[i + 1])
         IN  (IF bestDex = <<>> THEN <<>>
              ELSE << [ dexType |-> bestDex[1].dexType, dexName |-> bestDex[1].dexName,
                        pair |-> bestDex[1].pair, tokenIn |-> cycle[i],
                        tokenOut |-> cycle[i + 1], fee |-> bestDex[1].fee ] >>)
             \o CycleHops(g, cycle, i + 1)

\* an ArbitrageOpportunity of a strategy
StrategyOpportunity(strategy, hops, flashToken, profit, cycle) ==
    [ strategy |-> strategy,
      path |-> [hops |-> hops, startToken |-> flashToken, endToken |-> flashToken],
      flashToken |-> flashToken, flashAmount |-> StrategyFlashAmount,
      estimatedProfit |-> profit, cycle |-> cycle ]

\* opportunities.sort((a, b) => b.estimatedProfit.sub(a.estimatedProfit).gt(0) ? 1 : -1):
\* by estimated profit, descending
RECURSIVE SortByEstimatedProfit(_)
SortByEstimatedProfit(opps) ==
    IF opps = <<>> THEN <<>>
    ELSE LET rest == SortByEstimatedProfit(Tail(opps))
             IsAbove(o) == o.estimatedProfit >= Head(opps).estimatedProfit
             IsBelow(o) == o.estimatedProfit < Head(opps).estimatedProfit
         IN  SelectSeq(rest, IsAbove) \o <<Head(opps)>> \o SelectSeq(rest, IsBelow)

\* ---- MultiHopCrossDex

\* findCycles: the inner dfs and its loop over the neighbors; st holds the
\* shared `visited` and `cycles`
RECURSIVE MultiHopDfs(_, _, _, _, _, _)
RECURSIVE MultiHopLoop(_, _, _, _, _, _, _, _)

MultiHopDfs(g, startToken, targetLength, current, path, st) ==
    IF Len(st.cycles) >= MaxCycles THEN st
    ELSE LET depth == Len(path) - 1
         IN  IF depth = targetLength
             THEN IF GraphHasEdge(g, current, startToken)
                  THEN [st EXCEPT !.cycles = Append(@, Append(path, startToken))]
                  ELSE st
             ELSE IF depth >= targetLength THEN st
             ELSE MultiHopLoop(g, startToken, targetLength, current, path,
                               GraphNeighbors(g, current), 1, st)

MultiHopLoop(g, startToken, targetLength, current, path, neighbors, i, st) ==
    IF i > Len(neighbors) THEN st
    ELSE LET neighbor == neighbors[i]
             depth == Len(path) - 1
         IN  IF \/ neighbor \in st.visited /\ neighbor # startToken
                \/ neighbor = startToken /\ depth < targetLength - 1
             THEN MultiHopLoop(g, startToken, targetLength, current, path,
                               neighbors, i + 1, st)
             ELSE LET after == MultiHopDfs(g, startToken, targetLength, neighbor,
                                           Append(path, neighbor),
                                           [st EXCEPT !.visited = @ \cup {neighbor}])
                  IN  MultiHopLoop(g, startToken, targetLength, current, path,
                                   neighbors, i + 1,
                                   [after EXCEPT !.visited = @ \ {neighbor}])

\* MultiHopCrossDex.findCycles(startToken, targetLength, graph)
MultiHopFindCycles(startToken, targetLength, g) ==
    MultiHopDfs(g, startToken, targetLength, startToken, <<startToken>>,
                [visited |-> {startToken}, cycles |-> <<>>]).cycles

\* MultiHopCrossDex.evaluateCycle: <<>> stands for null
MultiHopEvaluateCycle(cycle, flashToken, g, minProfitThreshold_) ==
    LET hops == CycleHops(g, cycle, 1)
        profit == StrategyProfit(hops, StrategyFlashAmount, 97)
        profitPerHop == ((profit * BPS_DENOMINATOR) \div StrategyFlashAmount) \div Len(hops)
    IN  IF Len(hops) # Len(cycle) - 1 THEN <<>>
        ELSE IF profitPerHop < MIN_PROFIT_PER_HOP_BPS THEN <<>>
        ELSE IF profit <= minProfitThreshold_ THEN <<>>
        ELSE <<StrategyOpportunity("MultiHopCrossDex", hops, flashToken, profit, cycle)>>

\* the cycles findOpportunities gets from findCycles, over the start tokens
\* and the hop counts MIN_HOPS..MAX_HOPS, in the order of the loops
RECURSIVE MultiHopCycles(_, _, _, _)
MultiHopCycles(g, assets, a, hopCount) ==
    IF a > Len(assets) THEN <<>>
    ELSE IF hopCount > MAX_HOPS THEN MultiHopCycles(g, assets, a + 1, MIN_HOPS)
    ELSE [i \in 1..Len(MultiHopFindCycles(assets[a], hopCount, g)) |->
             [startToken |-> assets[a],
              cycle |-> MultiHopFindCycles(assets[a], hopCount, g)[i]]]
         \o MultiHopCycles(g, assets, a, hopCount + 1)

\* the opportunities evaluateCycle gives for the cycles, nulls left out
RECURSIVE MultiHopEvaluated(_, _, _)
MultiHopEvaluated(found, g, threshold) ==
    IF found = <<>> THEN <<>>
    ELSE MultiHopEvaluateCycle(Head(found).cycle, Head(found).startToken, g, threshold)
         \o MultiHopEvaluated(Tail(found), g, threshold)

\* a strategy keeps nothing between calls: one call is followed.
\* MultiHopCrossDex.findOpportunities(graph), the strategy configured with
\* minProfitThreshold `threshold`; `assets` is graph.getBorrowableAssets()
MultiHopFindOpportunities(g, assets, threshold) ==
    /\ hopSearch.fn = "none"
    /\ LET found == MultiHopCycles(g, assets, 1, MIN_HOPS)
       IN  hopSearch' =
             [ fn |-> "MultiHopCrossDex.findOpportunities", graph |-> g,
               assets |-> assets, cycles |-> found,
               opportunities |->
                   Slice(SortByEstimatedProfit(MultiHopEvaluated(found, g, threshold)),
                         TopMultiHop) ]
    /\ UNCHANGED <<pfVars, faVars, pcVars, pgVars, optVars, scanVars,
                   v3, engine, bot, pairCache, assetScan>>

\* ---- TriangularArbitrage

\* findThreeHopCycles: the inner dfs and its loop over the neighbors
RECURSIVE TriangularDfs(_, _, _, _, _, _)
RECURSIVE TriangularLoop(_, _, _, _, _, _, _, _)

TriangularDfs(g, startToken, currentToken, path, depth, st) ==
    IF depth = 3
    THEN IF Len(GraphEdges(g, currentToken, startToken)) > 0
         THEN [st EXCEPT !.cycles = Append(@, Append(path, startToken))]
         ELSE st
    ELSE IF currentToken \in st.visited THEN st
    ELSE LET after == TriangularLoop(g, startToken, currentToken, path, depth,
                                     GraphNeighbors(g, currentToken), 1,
                                     [st EXCEPT !.visited = @ \cup {currentToken}])
         IN  [after EXCEPT !.visited = @ \ {currentToken}]

TriangularLoop(g, startToken, currentToken, path, depth, neighbors, i, st) ==
    IF i > Len(neighbors) THEN st
    ELSE TriangularLoop(g, startToken, currentToken, path, depth, neighbors, i + 1,
             IF neighbors[i] # startToken \/ depth = 2
             THEN TriangularDfs(g, startToken, neighbors[i],
                                Append(path, neighbors[i]), depth + 1, st)
             ELSE st)

\* TriangularArbitrage.findThreeHopCycles(startToken, graph)
findThreeHopCycles(startToken, g) ==
    TriangularDfs(g, startToken, startToken, <<startToken>>, 0,
                  [visited |-> {}, cycles |-> <<>>]).cycles

\* TriangularArbitrage.evaluateCycle: <<>> stands for null
TriangularEvaluateCycle(cycle, flashToken, g, threshold) ==
    LET hops == CycleHops(g, cycle, 1)
        profit == StrategyProfit(hops, StrategyFlashAmount, 98)
    IN  IF Len(hops) # 3 THEN <<>>
        ELSE IF profit <= threshold THEN <<>>
        ELSE <<StrategyOpportunity("TriangularArbitrage", hops, flashToken, profit, cycle)>>

\* the cycles findOpportunities gets from findThreeHopCycles
RECURSIVE TriangularCycles(_, _, _)
TriangularCycles(g, assets, a) ==
    IF a > Len(assets) THEN <<>>
    ELSE [i \in 1..Len(findThreeHopCycles(assets[a], g)) |->
             [startToken |-> assets[a], cycle |-> findThreeHopCycles(assets[a], g)[i]]]
         \o TriangularCycles(g, assets, a + 1)

RECURSIVE TriangularEvaluated(_, _, _)
TriangularEvaluated(found, g, threshold) ==
    IF found = <<>> THEN <<>>
    ELSE TriangularEvaluateCycle(Head(found).cycle, Head(found).startToken, g, threshold)
         \o TriangularEvaluated(Tail(found), g, threshold)

\* TriangularArbitrage.findOpportunities(graph)
TriangularFindOpportunities(g, assets, threshold) ==
    /\ hopSearch.fn = "none"
    /\ LET found == TriangularCycles(g, assets, 1)
       IN  hopSearch' =
             [ fn |-> "TriangularArbitrage.findOpportunities", graph |-> g,
               assets |-> assets, cycles |-> found,
               opportunities |->
                   SortByEstimatedProfit(TriangularEvaluated(found, g, threshold)) ]
    /\ UNCHANGED <<pfVars, faVars, pcVars, pgVars, optVars, scanVars,
                   v3, engine, bot, pairCache, assetScan>>

-----------------------------------------------------------------------------
(* Part IX: StrategyEngine.findOpportunities (bot/core/StrategyEngine.ts):  *)
(* the confidence filter, the de-duplication against the batch and against  *)
(* the recently returned opportunities, the ranking and the tracking.       *)
(* Confidence is counted in percent, Date.now() in milliseconds.            *)

\* the engine as constructed: nothing tracked; `now` is Date.now(),
\* `returned` (history) the times and path signatures of the results so far
NewStrategyEngine ==
    [ recentOpportunities |-> EmptyMap, now |-> 1, result |-> <<>>, returned |-> <<>>,
      config |-> [minConfidence |-> 0, deduplicationWindow |-> 0,
                  maxOpportunitiesPerCycle |-> 0] ]

\* createPathSignature(path): start token, the hops' dexName:tokenIn:tokenOut,
\* end token
createPathSignature(path) ==
    << path.startToken,
       [i \in 1..Len(path.hops) |->
          <<path.hops[i].dexName, path.hops[i].tokenIn, path.hops[i].tokenOut>>],
       path.endToken >>

\* deduplicateOpportunities: is the signature skipped as recently seen
RecentlySeen(recent, signature, now, window) ==
    /\ signature \in DOMAIN recent
    /\ recent[signature] # 0
    /\ now - recent[signature] < window

\* deduplicateOpportunities: the loop from the given seenPaths
RECURSIVE DeduplicateFrom(_, _, _, _, _)
DeduplicateFrom(opportunities, seenPaths, recent, now, window) ==
    IF opportunities = <<>> THEN <<>>
    ELSE LET opp == Head(opportunities)
             pathSignature == createPathSignature(opp.path)
         IN  IF \/ RecentlySeen(recent, pathSignature, now, window)
                \/ pathSignature \in seenPaths
             THEN DeduplicateFrom(Tail(opportunities), seenPaths, recent, now, window)
             ELSE <<opp>> \o DeduplicateFrom(Tail(opportunities),
                                             seenPaths \cup {pathSignature},
                                             recent, now, window)

deduplicateOpportunities(opportunities, recent, now, window) ==
    DeduplicateFrom(opportunities, {}, recent, now, window)

\* cleanupTracking: entries older than twice the window are deleted
cleanupTracking(recent, now, window) ==
    [s \in {k \in DOMAIN recent : ~ (recent[k] < now - window * 2)} |-> recent[s]]

\* variant that tracks nothing
trackNothing(recent, opportunities, now, window) == recent

\* trackOpportunities: every signature is set to now, then the clean-up
trackOpportunities(recent, opportunities, now, window) ==
    LET signatures == {createPathSignature(opportunities[i].path) :
                          i \in 1..Len(opportunities)}
    IN  cleanupTracking([s \in DOMAIN recent \cup signatures |->
                            IF s \in signatures THEN now ELSE recent[s]],
                        now, window)

\* new StrategyEngine(engineConfig)
ConfigureEngine(engineConfig) ==
    /\ engine.config.maxOpportunitiesPerCycle = 0
    /\ engine' = [engine EXCEPT !.config = engineConfig]
    /\ UNCHANGED <<pfVars, faVars, pcVars, pgVars, optVars, scanVars,
                   v3, hopSearch, bot, pairCache, assetScan>>

\* time passes
EngineClock(maxClock) ==
    /\ engine.now < maxClock
    /\ engine' = [engine EXCEPT !.now = engine.now + 1]
    /\ UNCHANGED <<pfVars, faVars, pcVars, pgVars, optVars, scanVars,
                   v3, hopSearch, bot, pairCache, assetScan>>

\* findOpportunities from the point where the strategies have returned
\* allOpportunities: what follows the await runs without interruption
EngineFindOpportunities(allOpportunities, maxCalls) ==
    /\ engine.config.maxOpportunitiesPerCycle > 0
    /\ Len(engine.returned) < maxCalls
    /\ LET filtered == SelectSeq(allOpportunities,
                                 LAMBDA opp : opp.confidence >= engine.config.minConfidence)
           deduplicated == deduplicateOpportunities(filtered, engine.recentOpportunities,
                                                    engine.now,
                                                    engine.config.deduplicationWindow)
           limited == Slice(SortByEstimatedProfit(deduplicated),
                            engine.config.maxOpportunitiesPerCycle)
       IN  engine' = [engine EXCEPT
                        !.recentOpportunities =
                            trackOpportunities(engine.recentOpportunities, limited,
                                               engine.now,
                                               engine.config.deduplicationWindow),
                        !.result = limited,
                        !.returned = Append(engine.returned,
                            [ time |-> engine.now,
                              signatures |-> [i \in 1..Len(limited) |->
                                                createPathSignature(limited[i].path)] ])]
    /\ UNCHANGED <<pfVars, faVars, pcVars, pgVars, optVars, scanVars,
                   v3, hopSearch, bot, pairCache, assetScan>>

-----------------------------------------------------------------------------
(* Part X: ArbitrageBot.start / stop (bot/index.ts).  A call of start() that *)
(* passes the guard runs a main loop; the loop is suspended in              *)
(* `await this.scanCycle()` or in `await this.sleep(...)`.                   *)

\* the bot as constructed: `private running: boolean = false`, no loop;
\* of every loop: where it is suspended, and (history) whether stop() was
\* called while it ran and whether it went on after that
NewArbitrageBot == [running |-> FALSE, loops |-> <<>>]

\* the loops that have not returned
ActiveLoops == {i \in 1..Len(bot.loops) : bot.loops[i].at # "returned"}

\* start(): returns at once when running is set; else sets it, enters the
\* loop and is suspended in the first scanCycle
Start(maxLoops) ==
    /\ Len(bot.loops) < maxLoops
    /\ bot' = IF bot.running
              THEN [bot EXCEPT !.loops = Append(@, [at |-> "returned", stopped |-> FALSE,
                                                    survived |-> FALSE])]
              ELSE [bot EXCEPT !.running = TRUE,
                               !.loops = Append(@, [at |-> "scanCycle", stopped |-> FALSE,
                                                    survived |-> FALSE])]
    /\ UNCHANGED <<pfVars, faVars, pcVars, pgVars, optVars, scanVars,
                   v3, hopSearch, engine, pairCache, assetScan>>

\* stop(): `this.running = false`
Stop ==
    /\ bot' = [bot EXCEPT
                 !.running = FALSE,
                 !.loops = [i \in 1..Len(bot.loops) |->
                              IF i \in ActiveLoops
                              THEN [bot.loops[i] EXCEPT !.stopped = TRUE]
                              ELSE bot.loops[i]]]
    /\ UNCHANGED <<pfVars, faVars, pcVars, pgVars, optVars, scanVars,
                   v3, hopSearch, engine, pairCache, assetScan>>

\* the loop after `while (this.running)` is evaluated again
Reenter(loop, running) ==
    IF running
    THEN [loop EXCEPT !.at = "scanCycle", !.survived = loop.stopped]
    ELSE [loop EXCEPT !.at = "returned"]

\* scanCycle of loop i settles: resolved, the loop sleeps; rejected, the
\* catch block logs and the loop condition is evaluated
ScanCycleSettles(i, rejected) ==
    /\ i \in 1..Len(bot.loops)
    /\ bot.loops[i].at = "scanCycle"
    /\ bot' = [bot EXCEPT !.loops[i] =
                 IF rejected THEN Reenter(bot.loops[i], bot.running)
                 ELSE [bot.loops[i] EXCEPT !.at = "sleep"]]
    /\ UNCHANGED <<pfVars, faVars, pcVars, pgVars, optVars, scanVars,
                   v3, hopSearch, engine, pairCache, assetScan>>

\* the timer of sleep(scanInterval) of loop i fires
SleepResolves(i) ==
    /\ i \in 1..Len(bot.loops)
    /\ bot.loops[i].at = "sleep"
    /\ bot' = [bot EXCEPT !.loops[i] = Reenter(bot.loops[i], bot.running)]
    /\ UNCHANGED <<pfVars, faVars, pcVars, pgVars, optVars, scanVars,
                   v3, hopSearch, engine, pairCache, assetScan>>

-----------------------------------------------------------------------------
(* Part XI: PairFetcher.fetchAllPairs and the cache of fetchPairsFromDex     *)
(* (bot/core/PairFetcher.ts), for one enabled DEX.  Time is counted in       *)
(* seconds; a pair list is held as the time its reserves were read from the  *)
(* chain, <<>> being the empty list.                                         *)

\* PAIR_CACHE_CONFIG.TTL
PAIR_CACHE_TTL == 30

\* the fetcher as constructed: `cache` without entry, allPairsCache null,
\* allPairsCacheTimestamp 0; `returned` (history) is the last list returned
NewPairFetcher ==
    [ now |-> 0, cache |-> <<>>, allPairsCache |-> <<>>, allPairsCacheTimestamp |-> 0,
      returned |-> <<>> ]

\* fetchPairsFromDex: `cachedEntry` exists and is younger than the TTL
DexCacheFresh(p) ==
    /\ p.cache # <<>>
    /\ p.now - p.cache[1].timestamp < PAIR_CACHE_TTL

\* fetchAllPairs: `!forceRefresh && this.allPairsCache` and the age test
AllPairsCacheFresh(p, forceRefresh) ==
    /\ ~ forceRefresh
    /\ p.allPairsCache # <<>>
    /\ p.now - p.allPairsCacheTimestamp < PAIR_CACHE_TTL

\* time passes
PairClock(step, maxSeconds) ==
    /\ pairCache.now + step <= maxSeconds
    /\ pairCache' = [pairCache EXCEPT !.now = pairCache.now + step]
    /\ UNCHANGED <<pfVars, faVars, pcVars, pgVars, optVars, scanVars,
                   v3, hopSearch, engine, bot, assetScan>>

\* fetchAllPairs(forceRefresh); `fetchFails`: the factory call throws and
\* fetchPairsFromDex returns [] from its catch block
FetchAllPairs(forceRefresh, fetchFails) ==
    /\ pairCache' =
         IF AllPairsCacheFresh(pairCache, forceRefresh)
         THEN [pairCache EXCEPT
                 !.returned = << [ time |-> pairCache.now, forceRefresh |-> forceRefresh,
                                   pairs |-> pairCache.allPairsCache[1] ] >>]
         ELSE LET fromDex ==
                      IF DexCacheFresh(pairCache) THEN pairCache.cache[1].pairs
                      ELSE IF fetchFails THEN <<>>
                      ELSE << [readAt |-> pairCache.now] >>
              IN  [pairCache EXCEPT
                     !.cache = IF DexCacheFresh(pairCache) \/ fetchFails THEN @
                               ELSE << [pairs |-> fromDex, timestamp |-> pairCache.now] >>,
                     !.allPairsCache = <<fromDex>>,
                     !.allPairsCacheTimestamp = pairCache.now,
                     !.returned = << [ time |-> pairCache.now,
                                       forceRefresh |-> forceRefresh,
                                       pairs |-> fromDex ] >>]
    /\ UNCHANGED <<pfVars, faVars, pcVars, pgVars, optVars, scanVars,
                   v3, hopSearch, engine, bot, assetScan>>

-----------------------------------------------------------------------------
(* Part XII: ArbitrageScanner.scanAsset (README_PHASE_4.md): the calls in    *)
(* flight, each suspended in `await this.scan()`, and config.targetAssets    *)

\* the scanner as constructed with DEFAULT_SCANNER_CONFIG: targetAssets []
NewAssetScanner == [targetAssets |-> <<>>, calls |-> <<>>]

\* scanAsset(assetAddress) up to `await this.scan()`
ScanAsset(assetAddress, maxCalls) ==
    /\ Len(assetScan.calls) < maxCalls
    /\ assetScan' = [assetScan EXCEPT
                       !.targetAssets = <<assetAddress>>,
                       !.calls = Append(@, [ assetAddress |-> assetAddress,
                                             previousTargets |-> assetScan.targetAssets,
                                             at |-> "scan" ])]
    /\ UNCHANGED <<pfVars, faVars, pcVars, pgVars, optVars, scanVars,
                   v3, hopSearch, engine, bot, pairCache>>

\* scan() of call i settles: resolved, targetAssets is restored and the
\* results are returned; rejected, the exception leaves scanAsset
ScanAssetSettles(i, rejected) ==
    /\ i \in 1..Len(assetScan.calls)
    /\ assetScan.calls[i].at = "scan"
    /\ assetScan' = IF rejected
                    THEN [assetScan EXCEPT !.calls[i].at = "rejected"]
                    ELSE [assetScan EXCEPT
                            !.targetAssets = assetScan.calls[i].previousTargets,
                            !.calls[i].at = "returned"]
    /\ UNCHANGED <<pfVars, faVars, pcVars, pgVars, optVars, scanVars,
                   v3, hopSearch, engine, bot, pairCache>>

-----------------------------------------------------------------------------
(* Part I: inputs and specifications *)

\* the graphs of the model: at most MaxEdges of the possible edges
Graphs == {g \in SUBSET EdgeIds : Cardinality(g) <= MaxEdges}

\* the tokens findCycles is called with: the vertices, an upper-case
\* spelling of one of them, and an address that is no vertex
StartInputs == Tokens \cup {"A", "d"}

DepthConfigs ==
    {d \in [minDepth : 2..MaxDepthBound, maxDepth : 2..MaxDepthBound] :
        d.minDepth <= d.maxDepth}

\* pruning off; the default thresholds (scaled); a configuration that lets
\* the V3 edges pass the liquidity test and prunes on gas earlier
PruneConfigs ==
    { [enablePruning |-> FALSE, minLiquidity |-> 10000, maxGasEstimate |-> 800000],
      [enablePruning |-> TRUE,  minLiquidity |-> 10000, maxGasEstimate |-> 800000],
      [enablePruning |-> TRUE,  minLiquidity |-> 1000,  maxGasEstimate |-> 600000] }

MkConfig(d, p, maxPaths) ==
    [ maxDepth |-> d.maxDepth, minDepth |-> d.minDepth,
      minLiquidity |-> p.minLiquidity, maxGasEstimate |-> p.maxGasEstimate,
      maxPathsPerToken |-> maxPaths, enablePruning |-> p.enablePruning ]

\* the bot's components as constructed
InitExt ==
    /\ v3 = NoTraversal
    /\ hopSearch = [fn |-> "none"]
    /\ engine = NewStrategyEngine
    /\ bot = NewArbitrageBot
    /\ pairCache = NewPairFetcher
    /\ assetScan = NewAssetScanner

InitBot == InitPriceGraph /\ InitOptimizer /\ InitScanner /\ InitExt

\* the contract deployed with the threshold of 5 and not called
Deployed ==
    InitFlashArbitrage /\ minProfitThreshold = 5 /\ Holds(0, 0) /\ sim = NoSimulation
    /\ InitBot

\* the state after `new PathFinder(graph, config)`
InitPathFinder ==
    /\ pc = "idle"
    /\ start = ""
    /\ stack = <<>>
    /\ visited = {}
    /\ currentPath = <<>>
    /\ cycles = <<>>
    /\ stats = [nodesVisited |-> 0, pathsPruned |-> 0,
                tokensExplored |-> 0, pathsFound |-> 0]
    /\ allCycles = <<>>
    /\ tokenIdx = 0
    /\ retained = <<>>
    /\ dupOut = <<>>
    /\ dfsSteps = 0

Init ==
    /\ InitPathFinder
    /\ Deployed
    /\ graph \in Graphs
    /\ config \in {MkConfig(d, p, 100) : d \in DepthConfigs, p \in PruneConfigs}
    /\ dupIn = <<>>

Dfs == DfsEnter \/ DfsLoop \/ DfsReturn

\* The possible edges are the same from every token, so each pair of a graph
\* and a start token is a renaming of a pair whose start token is "a": the
\* calls of Spec start there (or at its upper-case spelling, or at no vertex).
Next ==
    \/ \E s \in {"a", "A", "d"} : FindCycles(s)
    \/ Dfs

\* findCycles on every multigraph (self-loops, one-way and parallel edges
\* included) and every configuration of the model
Spec == Init /\ [][Next]_vars

\* ---- graphs as buildFromPairsAndPools makes them: two directed edges
\* ---- (one per direction) for every pair or pool of two distinct tokens

\* the identifier of the edge (from, to, variant), inverse of EdgeAt
EdgeId(fromIdx, toIdx, kindIdx) ==
    (fromIdx - 1) * Len(TokenSeq) * Len(KindSeq) + (toIdx - 1) * Len(KindSeq) + kindIdx

Pools ==
    {p \in [t0 : 1..Len(TokenSeq), t1 : 1..Len(TokenSeq), kind : 1..Len(KindSeq)] :
        p.t0 < p.t1}

PoolEdges(p) == {EdgeId(p.t0, p.t1, p.kind), EdgeId(p.t1, p.t0, p.kind)}

PoolGraphs ==
    {UNION {PoolEdges(p) : p \in ps} : ps \in {q \in SUBSET Pools : Cardinality(q) <= MaxPools}}

PoolDepthConfigs ==
    {d \in [minDepth : 2..DefaultMaxDepth, maxDepth : 2..DefaultMaxDepth] :
        d.minDepth <= d.maxDepth}

InitPools ==
    /\ InitPathFinder
    /\ Deployed
    /\ graph \in PoolGraphs
    /\ config \in {MkConfig(d, p, m) : d \in PoolDepthConfigs, p \in PruneConfigs,
                                       m \in {1, 2, 100}}
    /\ dupIn = <<>>

NextPools ==
    \/ \E s \in StartInputs : FindCycles(s)
    \/ FindAllCycles
    \/ Dfs
    \/ FindAllCyclesCollect

\* findCycles and findAllCycles on graphs built from pools, for every depth
\* range up to the default maximum depth
SpecPools == InitPools /\ [][NextPools]_vars

\* ---- removeDuplicates

\* the closed two-hop routes between two distinct tokens, as ArbitragePaths
TwoHopPaths ==
    {convertToArbitragePath(<<e1, e2>>, EdgeAt(e1).from) :
        <<e1, e2>> \in {r \in EdgeIds \X EdgeIds :
                          /\ EdgeAt(r[1]).from # EdgeAt(r[1]).to
                          /\ EdgeAt(r[1]).to = EdgeAt(r[2]).from
                          /\ EdgeAt(r[2]).to = EdgeAt(r[1]).from}}

InitDedup ==
    /\ InitPathFinder
    /\ Deployed
    /\ graph = {}
    /\ config = MkConfig([minDepth |-> 2, maxDepth |-> DefaultMaxDepth],
                         [enablePruning |-> TRUE, minLiquidity |-> 10000,
                          maxGasEstimate |-> 800000], 100)
    /\ dupIn \in SeqsUpTo(TwoHopPaths, MaxPaths)

\* removeDuplicates on every list of at most MaxPaths two-hop paths
SpecDedup == InitDedup /\ [][RemoveDuplicates]_vars

-----------------------------------------------------------------------------
(* Part I: properties of the PathFinder *)

\* the edges (pair / pool identifiers) of a returned path, in order
EdgeSeq(path) == [i \in 1..Len(path.hops) |-> path.hops[i].pool]

\* the paths a list holds, as a set
Range(list) == {list[i] : i \in 1..Len(list)}

SimpleCycle(path) ==
    LET t == path.tokenAddresses
        n == Len(t)
    IN  /\ n >= 2
        /\ t[1] = start
        /\ t[n] = start
        /\ \A j \in 2..(n - 1) : t[j] # start
        /\ \A j, k \in 2..(n - 1) : j # k => t[j] # t[k]

\* C1: every path findCycles returns is a simple cycle: the start token is
\* the first and the last token and occurs nowhere else, and the tokens in
\* between are pairwise distinct.
C1_CyclesAreSimple == \A i \in 1..Len(cycles) : SimpleCycle(cycles[i])

HopsInRange(path) ==
    /\ Len(path.hops) >= config.minDepth
    /\ Len(path.hops) <= config.maxDepth

\* C2: every path returned by findCycles (cycles) or findAllCycles
\* (allCycles) has between minDepth and maxDepth hops.
C2_HopCountInRange ==
    /\ \A i \in 1..Len(cycles) : HopsInRange(cycles[i])
    /\ \A i \in 1..Len(allCycles) : HopsInRange(allCycles[i])

\* findAllCycles has returned a path of maxDepth hops, with minDepth
\* smaller, after dfs cut a branch
C2_Witness ==
    /\ pc = "allDone"
    /\ config.minDepth < config.maxDepth
    /\ stats.pathsPruned > 0
    /\ \E i \in 1..Len(allCycles) : Len(allCycles[i].hops) = config.maxDepth

ChainedWalk(path) ==
    LET t == path.tokenAddresses
        h == path.hops
    IN  /\ Len(t) = Len(h) + 1
        /\ t[1] = start
        /\ t[Len(t)] = start
        /\ \A i \in 1..Len(h) : h[i].tokenIn = t[i] /\ h[i].tokenOut = t[i + 1]

\* C3: every path findCycles(start) returns is a closed chained walk: one
\* more token than hops, first and last token equal to start, and hop i
\* leading from token i to token i+1.
C3_ClosedChainedWalk == \A i \in 1..Len(cycles) : ChainedWalk(cycles[i])

\* findCycles has returned a path of three hops or more
C3_Witness ==
    /\ pc = "done"
    /\ \E i \in 1..Len(cycles) : Len(cycles[i].hops) >= 3

\* the last token of the walk w that starts at start
WalkEnd(w) == IF w = <<>> THEN start ELSE EdgeAt(w[Len(w)]).to

RECURSIVE SimplePaths(_)
\* the walks of n edges of the graph that leave start and meet n distinct
\* tokens other than start
SimplePaths(n) ==
    IF n = 0 THEN {<<>>}
    ELSE {Append(x[1], x[2]) :
            x \in {y \in SimplePaths(n - 1) \X graph :
                     /\ EdgeAt(y[2]).from = WalkEnd(y[1])
                     /\ EdgeAt(y[2]).to # start
                     /\ \A i \in 1..Len(y[1]) : EdgeAt(y[1][i]).to # EdgeAt(y[2]).to}}

\* the simple cycles of n edges through start
SimpleCyclesOfLength(n) ==
    {Append(x[1], x[2]) :
        x \in {y \in SimplePaths(n - 1) \X graph :
                 EdgeAt(y[2]).from = WalkEnd(y[1]) /\ EdgeAt(y[2]).to = start}}

\* every edge of the walk passes both pruning predicates where it is appended
PassesPruning(w) ==
    config.enablePruning =>
        \A j \in 1..Len(w) :
            /\ EdgeAt(w[j]).effectiveLiquidity >= config.minLiquidity
            /\ estimatePathGas(SubSeq(w, 1, j - 1)) + EdgeAt(w[j]).gasEstimate
                   <= config.maxGasEstimate

ExpectedCycles ==
    {w \in UNION {SimpleCyclesOfLength(n) : n \in config.minDepth..config.maxDepth} :
        PassesPruning(w)}

\* C4: findCycles(start) is complete: when it returns, every simple cycle
\* through start of minDepth..maxDepth edges whose edges pass the pruning
\* predicates is among the returned paths, and no edge sequence is returned
\* twice.
C4_Complete ==
    (pc = "done" /\ HasVertex(start)) =>
        /\ ExpectedCycles \subseteq {EdgeSeq(cycles[i]) : i \in 1..Len(cycles)}
        /\ \A i, j \in 1..Len(cycles) : i # j => EdgeSeq(cycles[i]) # EdgeSeq(cycles[j])

\* findCycles has returned, with pruning on, a simple cycle that passes the
\* pruning predicates from a graph that holds one that does not
C4_Witness ==
    /\ pc = "done"
    /\ config.enablePruning
    /\ ExpectedCycles # {}
    /\ \E n \in config.minDepth..config.maxDepth :
          \E w \in SimpleCyclesOfLength(n) : ~ PassesPruning(w)

RECURSIVE Pow(_, _)
Pow(b, e) == IF e = 0 THEN 1 ELSE b * Pow(b, e - 1)

RECURSIVE GeometricSum(_, _)
\* 1 + m + m^2 + ... + m^d
GeometricSum(m, d) == IF d = 0 THEN 1 ELSE Pow(m, d) + GeometricSum(m, d - 1)

\* the possible edges that leave each token
EdgeIdsFrom == [t \in Tokens |-> {i \in EdgeIds : EdgeAt(i).from = t}]

\* the number of edges getOutgoingEdges(t) returns
OutDegree(t) == Cardinality(graph \cap EdgeIdsFrom[t])

MaxOutDegree ==
    CHOOSE d \in {OutDegree(t) : t \in Tokens} : \A t \in Tokens : OutDegree(t) <= d

\* the nodes of the complete tree of out-degree m down to depth
\* maxDepth + 1 (the depth at which an invocation returns at once)
NodeBound(m) == GeometricSum(m, config.maxDepth + 1)

\* an invocation of dfs takes one step to enter, at most one per outgoing
\* edge plus one to leave its loop, and one to return
StepBound(m) == (m + 3) * NodeBound(m)

\* C5: findCycles always returns, on graphs with cycles, self-loops and
\* parallel edges too: the number of dfs invocations and the number of steps
\* of the search never exceed bounds that depend on maxDepth and the largest
\* out-degree only, and a search that has not returned can take a step.
C5_TerminatesBounded ==
    /\ LET m == MaxOutDegree
       IN  /\ stats.nodesVisited <= NodeBound(m)
           /\ dfsSteps <= StepBound(m)
    /\ pc \in {"enter", "loop", "exit"} => ENABLED Dfs

\* findCycles has returned on a graph with a self-loop at the start token
\* and two parallel edges, after more than three invocations of dfs
C5_Witness ==
    /\ pc = "done"
    /\ HasVertex(start)
    /\ \E e \in graph : EdgeAt(e).from = start /\ EdgeAt(e).to = start
    /\ \E e1, e2 \in graph :
          e1 # e2 /\ EdgeAt(e1).from = EdgeAt(e2).from /\ EdgeAt(e1).to = EdgeAt(e2).to
    /\ stats.nodesVisited > 3

\* C6: when an invocation of dfs returns, the visited set and the
\* currentPath edge list are what they were when it was entered.
C6_BacktrackRestores ==
    pc = "exit" => (visited = Top.visitedIn /\ currentPath = Top.pathIn)

\* C7: with pruning enabled, every edge of a returned path has
\* effectiveLiquidity >= minLiquidity, and the gas estimate of the edges
\* before it plus its own gasEstimate is <= maxGasEstimate.
C7_NoPrunedEdgeReturned ==
    config.enablePruning =>
        \A i \in 1..Len(cycles) :
            \A j \in 1..Len(cycles[i].hops) :
                LET w == EdgeSeq(cycles[i])
                IN  /\ EdgeAt(w[j]).effectiveLiquidity >= config.minLiquidity
                    /\ estimatePathGas(SubSeq(w, 1, j - 1)) + EdgeAt(w[j]).gasEstimate
                           <= config.maxGasEstimate

\* findCycles has returned a path with pruning on, from a graph that holds
\* an edge out of start below the liquidity floor that closes a cycle
C7_Witness ==
    /\ pc = "done"
    /\ config.enablePruning
    /\ Len(cycles) > 0
    /\ \E e1, e2 \in graph :
          /\ EdgeAt(e1).from = start
          /\ EdgeAt(e1).effectiveLiquidity < config.minLiquidity
          /\ EdgeAt(e2).from = EdgeAt(e1).to
          /\ EdgeAt(e2).to = start

RECURSIVE FirstOccurrences(_, _)
\* the entries of paths from position i on whose token sequence occurs at no
\* earlier position, in order
FirstOccurrences(paths, i) ==
    IF i > Len(paths) THEN <<>>
    ELSE IF \E j \in 1..(i - 1) : paths[j].tokenAddresses = paths[i].tokenAddresses
         THEN FirstOccurrences(paths, i + 1)
         ELSE <<paths[i]>> \o FirstOccurrences(paths, i + 1)

\* C8: removeDuplicates returns a list without two paths of the same token
\* sequence, made of the first input path of every token sequence of the
\* input, in input order.
C8_RemoveDuplicates ==
    pc = "dedupDone" =>
        /\ \A i, j \in 1..Len(dupOut) :
              i # j => dupOut[i].tokenAddresses # dupOut[j].tokenAddresses
        /\ dupOut = FirstOccurrences(dupIn, 1)

\* removeDuplicates has dropped the third of three paths, a different route
\* over the token sequence of the first
C8_Witness ==
    /\ pc = "dedupDone"
    /\ Len(dupIn) = 3
    /\ dupIn[1].tokenAddresses = dupIn[3].tokenAddresses
    /\ dupIn[1] # dupIn[3]
    /\ dupIn[1].tokenAddresses # dupIn[2].tokenAddresses
    /\ dupOut = <<dupIn[1], dupIn[2]>>

RECURSIVE ConcatKept(_)
ConcatKept(rs) == IF rs = <<>> THEN <<>> ELSE Head(rs).kept \o ConcatKept(Tail(rs))

\* C9: the list findAllCycles builds holds, for each starting token, at
\* most maxPathsPerToken cycles found from it, and the cap for one token
\* removes no cycle retained for an earlier token: allCycles is always the
\* concatenation of the slices retained token by token.
C9_CapPerToken ==
    tokenIdx > 0 =>
        /\ allCycles = ConcatKept(retained)
        /\ \A i \in 1..Len(retained) :
              /\ Len(retained[i].kept) <= config.maxPathsPerToken
              /\ \A k \in 1..Len(retained[i].kept) :
                    retained[i].kept[k].tokenAddresses[1] = TokenSeq[i]
        /\ \A t \in Tokens :
              Cardinality({k \in 1..Len(allCycles) : allCycles[k].tokenAddresses[1] = t})
                  <= config.maxPathsPerToken

\* findAllCycles has returned after capping a later token's cycles while
\* cycles of the first token were retained
C9_Witness ==
    /\ pc = "allDone"
    /\ Len(retained[1].kept) > 0
    /\ \E i \in 2..Len(retained) :
          /\ retained[i].found > config.maxPathsPerToken
          /\ Len(retained[i].kept) = config.maxPathsPerToken

-----------------------------------------------------------------------------
(* Part II: specification and properties of FlashArbitrage *)

\* the contract deployed and an idle PathFinder on the empty graph
InitChain ==
    /\ InitFlashArbitrage
    /\ InitBot
    /\ Holds(0, 0)
    /\ InitPathFinder
    /\ graph = {}
    /\ config = MkConfig([minDepth |-> 2, maxDepth |-> DefaultMaxDepth],
                         [enablePruning |-> TRUE, minLiquidity |-> 10000,
                          maxGasEstimate |-> 800000], 100)
    /\ dupIn = <<>>

InitFlash == InitChain /\ sim = NoSimulation

\* the pair / pool states the swaps of a path meet, one per swap
PoolStatesFor(params) == [1..Len(params.swaps) -> PoolStates]

NextFlash ==
    \/ /\ ~ loan.active
       /\ \E caller \in {OWNER, STRANGER}, params \in ArbitrageParams :
             ExecuteArbitrage(caller, params)
       /\ UNCHANGED lastCall
    \/ /\ \E caller \in {OWNER, STRANGER} : ForeignFlashLoan(caller, ProbeParams)
       /\ UNCHANGED lastCall
    \/ /\ \E poolStates \in PoolStatesFor(loan.params), transferOk \in BOOLEAN :
             FlashLoanCallback(poolStates, transferOk)
       /\ UNCHANGED lastCall
    \/ /\ \E sender \in {OWNER, STRANGER, THIS}, initiator \in {THIS, STRANGER},
             poolStates \in PoolStatesFor(ProbeParams) :
             DirectCallback(sender, initiator, ProbeParams, poolStates)
       /\ UNCHANGED lastCall
    \/ /\ \E caller \in {OWNER, STRANGER} : Pause(caller)
       /\ UNCHANGED lastCall
    \/ /\ \E caller \in {OWNER, STRANGER} : Unpause(caller)
       /\ UNCHANGED lastCall

\* the contract and the accounts and contracts that call it
SpecFlash == InitFlash /\ [][NextFlash]_vars

\* a call of executeOperation that the claim allows to act: made by the Aave
\* pool, with the contract as initiator, for the loan an executeArbitrage
\* call of the owner requested and that is still in progress
LegitimateCallback(op) ==
    /\ op.sender = POOL
    /\ op.initiator = THIS
    /\ op.byArbitrageOf = OWNER

\* C10: executeOperation runs swaps and transfers tokens only when the Aave
\* pool calls it with the contract itself as initiator during the flash loan
\* of an executeArbitrage call of the owner that is in progress; any other
\* call reverts (InvalidCallback) before the first swap and leaves the
\* contract's storage and the owner's balance as they were.
C10_CallbackOnlyInLoan ==
    (opLog.called /\ ~ LegitimateCallback(opLog)) =>
        /\ opLog.error = "InvalidCallback"
        /\ opLog.swapsRun = 0
        /\ opLog.profit = 0
        /\ ~ opLog.changed

\* the Aave pool has called executeOperation for a loan that another account
\* requested with the contract as receiver, and the call was refused
C10_Witness ==
    /\ opLog.called
    /\ opLog.sender = POOL
    /\ opLog.initiator = STRANGER
    /\ opLog.error = "InvalidCallback"
    /\ totalArbitragesExecuted = 1
    /\ ownerReceived > 0

\* the last call of executeOperation was accepted as a callback and ran
\* every swap of the path
SwapsCompleted(op) == op.called /\ LegitimateCallback(op) /\ op.swapsDone

\* what a successful executeOperation does with the final amount: the Aave
\* pool is approved for the debt and the rest goes to the owner
SettlesLoan(op) ==
    /\ op.approved = op.amount + op.premium
    /\ op.profit = op.final - op.amount - op.premium

C17_InsufficientProfitReported ==
    (SwapsCompleted(opLog)
       /\ opLog.final < opLog.amount + opLog.premium + opLog.threshold) =>
        /\ opLog.error = "InsufficientProfit"
        /\ opLog.actual = opLog.final - (opLog.amount + opLog.premium)
        /\ opLog.required = opLog.threshold

-----------------------------------------------------------------------------
(* The owner's functions and the V3 callback *)

\* a Uniswap V3 pool a swap of a path goes through
V3POOL == "v3Pool"

\* what an unauthorized call must leave alone: the switches, the thresholds,
\* the statistics and the balances
Owned == <<paused, minProfitThreshold, maxSlippageBps, totalArbitragesExecuted,
           totalProfitGenerated, tokenBalance, ethBalance, ownerReceived, ownerEth>>

\* the executing arbitrage has a swap on a V3 pool
SwappingWithV3 ==
    IF InArbitrage
    THEN \E i \in 1..Len(loan.params.swaps) : loan.params.swaps[i].isV3
    ELSE FALSE

\* the history of a call of the external function fn by caller that ends
\* with error ("" when it does not revert), with what held before the call
\* and what the call did
CallRecord(fn, caller, error, params) ==
    [ fn |-> fn, caller |-> caller, error |-> error, params |-> params,
      pausedBefore |-> paused,
      executing    |-> InArbitrage,
      inV3Swap     |-> SwappingWithV3,
      afterUnpause |-> lastCall.fn = "unpause" /\ lastCall.error = ""
                         /\ lastCall.pausedBefore,
      refusedPaused |-> lastCall.refusedPaused
                          \/ (fn = "executeArbitrage" /\ error = "Paused"),
      changed      |-> Owned' # Owned,
      loanRequested |-> loan' # loan,
      tokensOut    |-> tokenBalance - tokenBalance' ]

\* a path of n swaps that ends where it starts (n >= 2): USDC to WETH n - 1
\* times, then WETH to USDC; the first swap on a V3 pool when isV3
PathOf(n, isV3) ==
    [i \in 1..n |->
        IF i < n
        THEN [tokenIn |-> "USDC", tokenOut |-> "WETH", isV3 |-> isV3 /\ i = 1,
              minAmountOut |-> 0]
        ELSE [tokenIn |-> "WETH", tokenOut |-> "USDC", isV3 |-> FALSE,
              minAmountOut |-> 0]]

\* the parameters of the admin specification: the two-swap path, on V2 pairs
\* or starting on a V3 pool
AdminParams ==
    {[asset |-> "USDC", amount |-> LoanAmount, minFinalAmount |-> 0,
      swaps |-> PathOf(2, isV3)] : isV3 \in BOOLEAN}

\* every swap of the path meets the same pair / pool state
PoolStatesUniform(params) ==
    {[i \in 1..Len(params.swaps) |-> s] : s \in PoolStates}

\* the contract deployed with threshold 5, holding tokens and ETH sent to it
InitAdmin ==
    /\ InitFlashArbitrage
    /\ minProfitThreshold = 5
    /\ \E held \in {0, MaxHeld} : Holds(held, held)
    /\ sim = NoSimulation
    /\ InitBot
    /\ InitPathFinder
    /\ graph = {}
    /\ config = MkConfig([minDepth |-> 2, maxDepth |-> DefaultMaxDepth],
                         [enablePruning |-> TRUE, minLiquidity |-> 10000,
                          maxGasEstimate |-> 800000], 100)
    /\ dupIn = <<>>

NextAdmin ==
    \/ \E caller \in {OWNER, STRANGER}, params \in AdminParams :
          /\ ~ loan.active
          /\ ExecuteArbitrage(caller, params)
          /\ lastCall' = CallRecord("executeArbitrage", caller,
                                    ArbitrageCheck(caller, params), params)
    \/ \E poolStates \in PoolStatesUniform(loan.params), transferOk \in BOOLEAN :
          /\ FlashLoanCallback(poolStates, transferOk)
          /\ lastCall' = CallRecord("executeOperation", POOL, opLog'.error, loan.params)
    \/ \E caller \in {OWNER, STRANGER} :
          /\ Pause(caller)
          /\ lastCall' = CallRecord("pause", caller, PauseCheck(caller), NoLoan.params)
    \/ \E caller \in {OWNER, STRANGER} :
          /\ Unpause(caller)
          /\ lastCall' = CallRecord("unpause", caller, PauseCheck(caller), NoLoan.params)
    \/ \E caller \in {OWNER, STRANGER}, newMinProfitThreshold \in {0},
          newMaxSlippageBps \in {MaxSlippageLimit, MaxSlippageLimit + 1} :
          /\ UpdateConfiguration(caller, newMinProfitThreshold, newMaxSlippageBps)
          /\ lastCall' = CallRecord("updateConfiguration", caller,
                                    ConfigurationCheck(caller, newMaxSlippageBps),
                                    NoLoan.params)
    \/ \E caller \in {OWNER, STRANGER}, amount \in {0, 1, MaxHeld + 1},
          transferOk \in BOOLEAN :
          /\ WithdrawToken(caller, amount, transferOk)
          /\ lastCall' = CallRecord("withdrawToken", caller,
                                    WithdrawTokenCheck(caller, amount, transferOk),
                                    NoLoan.params)
    \/ \E caller \in {OWNER, STRANGER}, sendOk \in BOOLEAN :
          /\ WithdrawETH(caller, sendOk)
          /\ lastCall' = CallRecord("withdrawETH", caller,
                                    WithdrawETHCheck(caller, sendOk), NoLoan.params)
    \/ \E caller \in {V3POOL, STRANGER}, amount0Delta \in {0, 1},
          amount1Delta \in {-1, MaxHeld} :
          /\ UniswapV3SwapCallback(caller, amount0Delta, amount1Delta)
          /\ lastCall' = CallRecord("uniswapV3SwapCallback", caller,
                                    V3CallbackCheck(amount0Delta, amount1Delta),
                                    NoLoan.params)

SpecAdmin == InitAdmin /\ [][NextAdmin]_vars

\* the functions with the onlyOwner modifier
OwnerFunctions ==
    {"executeArbitrage", "updateConfiguration", "pause", "unpause", "withdrawToken",
     "withdrawETH"}

\* C13: a call of executeArbitrage, updateConfiguration, pause, unpause,
\* withdrawToken or withdrawETH by any account other than owner reverts
\* (Unauthorized) and leaves paused, minProfitThreshold, maxSlippageBps, the
\* statistics and all balances unchanged, and requests no loan.
C13_OnlyOwner ==
    (lastCall.fn \in OwnerFunctions /\ lastCall.caller # OWNER) =>
        /\ lastCall.error = "Unauthorized"
        /\ ~ lastCall.changed
        /\ ~ lastCall.loanRequested

\* a stranger has tried to withdraw the tokens the contract holds
C13_Witness ==
    /\ lastCall.fn = "withdrawToken"
    /\ lastCall.caller = STRANGER
    /\ lastCall.error = "Unauthorized"
    /\ tokenBalance > 0

\* C11: uniswapV3SwapCallback moves tokens only when its caller is the V3
\* pool the contract is swapping with inside an arbitrage execution; a call
\* from any other address, or outside an arbitrage execution, moves no
\* tokens.
C11_CallbackPaysOnlyThePoolInSwap ==
    (lastCall.fn = "uniswapV3SwapCallback" /\ lastCall.tokensOut > 0) =>
        /\ lastCall.caller = V3POOL
        /\ lastCall.executing
        /\ lastCall.inV3Swap

-----------------------------------------------------------------------------
(* The guards of executeArbitrage *)

\* the parameters of the guard specification: paths of 0 to MaxPathLength + 1
\* swaps, borrowing either asset, with and without a floor on the final
\* amount
GuardParams ==
    [asset : Assets, amount : {LoanAmount},
     swaps : {PathOf(n, FALSE) : n \in 0..(MaxPathLength + 1)},
     minFinalAmount : {0, FinalFloor}]

NextGuard ==
    \/ \E caller \in {OWNER, STRANGER}, params \in GuardParams :
          /\ ExecuteArbitrage(caller, params)
          /\ lastCall' = CallRecord("executeArbitrage", caller,
                                    ArbitrageCheck(caller, params), params)
    \/ \E poolStates \in PoolStatesUniform(loan.params), transferOk \in BOOLEAN :
          /\ FlashLoanCallback(poolStates, transferOk)
          /\ lastCall' = CallRecord("executeOperation", POOL, opLog'.error, loan.params)
    \/ \E caller \in {OWNER, STRANGER} :
          /\ Pause(caller)
          /\ lastCall' = CallRecord("pause", caller, PauseCheck(caller), NoLoan.params)
    \/ \E caller \in {OWNER, STRANGER} :
          /\ Unpause(caller)
          /\ lastCall' = CallRecord("unpause", caller, PauseCheck(caller), NoLoan.params)

SpecGuard == InitFlash /\ [][NextGuard]_vars

\* the last call is a call of executeArbitrage
ArbitrageCalled == lastCall.fn = "executeArbitrage"

\* the last call did nothing: it reverted, requested no loan and changed
\* neither the statistics nor anything else the contract owns
Reverted ==
    /\ lastCall.error # ""
    /\ ~ lastCall.loanRequested
    /\ ~ lastCall.changed

\* a path the contract is to accept: 1 to 6 swaps, back at the token it
\* starts with, which is the borrowed asset
WellFormed(params) ==
    /\ Len(params.swaps) \in 1..MaxPathLength
    /\ params.swaps[1].tokenIn = params.swaps[Len(params.swaps)].tokenOut
    /\ params.asset = params.swaps[1].tokenIn

\* C14: while paused is true executeArbitrage reverts (no flash loan, no
\* swap, no change of the statistics); after the owner's unpause the owner's
\* call is accepted again.
C14_PausedBlocksArbitrage ==
    /\ (ArbitrageCalled /\ lastCall.pausedBefore) =>
           /\ Reverted
           /\ lastCall.caller = OWNER => lastCall.error = "Paused"
    /\ (ArbitrageCalled /\ lastCall.afterUnpause /\ lastCall.caller = OWNER
          /\ WellFormed(lastCall.params)) =>
           /\ lastCall.error = ""
           /\ lastCall.loanRequested

\* the owner's call was refused while paused and, right after the owner's
\* unpause, is accepted
C14_Witness ==
    /\ ArbitrageCalled
    /\ lastCall.refusedPaused
    /\ lastCall.afterUnpause
    /\ lastCall.error = ""
    /\ loan.active

\* C15: a call of executeArbitrage made while another executeArbitrage is
\* still executing reverts, and whenever no executeArbitrage is in progress
\* the guard status is NOT_ENTERED (1).
C15_NonReentrant ==
    /\ (ArbitrageCalled /\ lastCall.executing) => Reverted
    /\ ~ InArbitrage => status = NOT_ENTERED

\* the owner's nested call was refused by the guard
C15_Witness ==
    /\ ArbitrageCalled
    /\ lastCall.executing
    /\ lastCall.caller = OWNER
    /\ lastCall.error = "ReentrancyGuard"
    /\ status = ENTERED

\* C16: executeArbitrage reverts before any flash loan is requested when the
\* path is empty, has more than 6 swaps, is not circular, or when the
\* borrowed asset differs from the first swap's tokenIn; the error is
\* InvalidPath when the modifiers let the call through.
C16_InvalidPathRejected ==
    (ArbitrageCalled /\ ~ WellFormed(lastCall.params)) =>
        /\ Reverted
        /\ (lastCall.caller = OWNER /\ ~ lastCall.pausedBefore /\ ~ lastCall.executing)
               => lastCall.error = "InvalidPath"

\* the owner's circular path of 7 swaps was refused
C16_Witness ==
    /\ ArbitrageCalled
    /\ Len(lastCall.params.swaps) = MaxPathLength + 1
    /\ lastCall.params.asset = "USDC"
    /\ lastCall.error = "InvalidPath"

\* C18: a successful executeArbitrage ends with a final amount of at least
\* params.minFinalAmount; a final amount below it makes the call revert.
C18_MinFinalAmountEnforced ==
    (lastCall.fn = "executeOperation" /\ opLog.called /\ lastCall.error = "") =>
        opLog.final >= lastCall.params.minFinalAmount

-----------------------------------------------------------------------------
(* The paths the ProfitCalculator and validatePath are handed *)

\* n hops through pairA, usdc to weth and back in turn
Alternating(n) ==
    [i \in 1..n |->
        IF i % 2 = 1 THEN Hop("v2", "usdc", "weth", "pairA")
        ELSE Hop("v2", "weth", "usdc", "pairA")]

\* the paths of the model, up to one hop more than DefaultMaxDepth
SimPaths ==
    SeqsUpTo(HopSet, MaxHops) \cup {Alternating(n) : n \in 3..(DefaultMaxDepth + 1)}

NextSim ==
    \/ \E loanAmount \in {LoanAmount, 2 * LoanAmount}, path \in SimPaths :
          SimulatePath(loanAmount, path)
    \/ \E loanAmount \in {LoanAmount, 2 * LoanAmount}, path \in SimPaths,
          gasCost \in {0, 1} :
          CalculateProfit(loanAmount, path, gasCost)
    \/ \E hops \in SimPaths, flashToken \in {"", "usdc"}, flashAmount \in {0, LoanAmount} :
          ValidatePath(hops, flashToken, flashAmount)

InitSim == InitFlash /\ minProfitThreshold = 5

SpecSim == InitSim /\ [][NextSim]_vars

\* the last call is a call of simulatePath or of calculateProfit
Simulating == sim.fn \in {"simulatePath", "calculateProfit"}

\* C19: a path whose hops are not chained is rejected before any hop of it
\* is simulated or executed: simulatePath / calculateProfit call no swap
\* simulator for it, and validatePath does not accept it.
C19_UnchainedPathRejected ==
    (sim.fn # "" /\ ~ areHopsConnected(sim.path)) =>
        /\ sim.error # ""
        /\ sim.simulated = 0

\* C20: a path of 7 hops (more than maxDepth = 6) is rejected before any hop
\* of it is simulated: no call of simulatePath or calculateProfit with such
\* a path reaches a swap simulator.
C20_LongPathNotSimulated ==
    (Simulating /\ Len(sim.path) > DefaultMaxDepth) =>
        /\ sim.error # ""
        /\ sim.simulated = 0

\* the pair or pool state a hop of the model reads, and the amount its
\* simulator returns for amountIn
HopOut(hop, amountIn) ==
    LET venue == Venue(hop.venue)
    IN  IF hop.type = "v3" THEN venue.amountOut
        ELSE IF hop.tokenIn = venue.token0
        THEN getAmountOut(amountIn, venue.reserve0, venue.reserve1, venue.fee)
        ELSE getAmountOut(amountIn, venue.reserve1, venue.reserve0, venue.fee)

\* C22: simulatePath(L, path) threads the amounts through the hops: the
\* input of the first hop is L, the input of hop i + 1 is the output of hop
\* i, intermediateAmounts is [L, out_0, ..., out_(n-1)] for the n hops, and
\* finalOutput is out_(n-1).
C22_AmountsThreaded ==
    (Simulating /\ sim.error = "") =>
        LET n == Len(sim.path)
            amounts == sim.intermediateAmounts
        IN  /\ Len(amounts) = n + 1
            /\ amounts[1] = sim.loanAmount
            /\ \A i \in 1..n : amounts[i + 1] = HopOut(sim.path[i], amounts[i])
            /\ sim.finalOutput = amounts[n + 1]

\* a path of two V2 hops was simulated, and the second hop's output differs
\* from what the loan amount would have given
C22_Witness ==
    /\ sim.fn = "simulatePath"
    /\ sim.error = ""
    /\ Len(sim.path) = 2
    /\ sim.path[2].type = "v2"
    /\ sim.finalOutput # HopOut(sim.path[2], sim.loanAmount)

-----------------------------------------------------------------------------
(* The debt of a flash loan *)

LoanAmounts == {i * LoanUnit : i \in 0..MaxLoanUnits}

NextDebt == \E loanAmount \in LoanAmounts : CalculateDebt(loanAmount)

SpecDebt == InitSim /\ [][NextDebt]_vars

\* C24: for every non-negative loan amount L, calculateDebt(L) is
\* floor(L * 10009 / 10000), the debt at the default fee of 9 bps, and is
\* never less than L.
C24_DebtCorrect ==
    sim.fn = "calculateDebt" =>
        LET L == sim.loanAmount
        IN  /\ sim.debt * 10000 <= L * 10009
            /\ L * 10009 < (sim.debt + 1) * 10000
            /\ sim.debt >= L
            /\ sim.debtOnChain = sim.debt

\* a debt above the loan amount that the division rounded down
C24_Witness ==
    /\ sim.fn = "calculateDebt"
    /\ sim.debt > sim.loanAmount
    /\ sim.debt * 10000 < sim.loanAmount * 10009

-----------------------------------------------------------------------------
(* The V2 output formula *)

ReserveValues == (1..MaxReserve) \cup {100, 400}

FeeValues == {0, 30, 10000}

InitSwap ==
    /\ InitChain
    /\ minProfitThreshold = 5
    /\ \E reserveIn \in ReserveValues, reserveOut \in ReserveValues, feeBps \in FeeValues :
          sim = NewPair(reserveIn, reserveOut, feeBps)

NextSwap ==
    \/ \E amountIn \in 0..MaxAmountIn : QuoteV2(amountIn)
    \/ \E amountIn \in 0..MaxAmountIn : SwapV2(amountIn)

SpecSwap == InitSwap /\ [][NextSwap]_vars

\* two quotes on the same reserves, for a positive amount in and then for a
\* larger one
LargerQuote == sim.fn = "getAmountOut" /\ 0 < sim.prevIn /\ sim.prevIn < sim.amountIn

\* C25: for fixed positive reserves and fee the V2 output is strictly
\* increasing in amountIn: a < b gives amountOut(a) < amountOut(b).
C25_StrictlyIncreasing == LargerQuote => sim.prevOut < sim.amountOut

\* C25, amended: the V2 output never decreases when amountIn grows: a < b
\* gives amountOut(a) <= amountOut(b).
C25_NonDecreasing == LargerQuote => sim.prevOut <= sim.amountOut

\* a larger amount in gave a larger output, at a fee of 30 bps
C25_Witness ==
    /\ LargerQuote
    /\ sim.feeBps = 30
    /\ 0 < sim.prevOut
    /\ sim.prevOut < sim.amountOut

\* C26: after a V2 swap at the formula's output the product of the reserves
\* has not decreased: (reserveIn + amountIn) * (reserveOut - amountOut) >=
\* reserveIn * reserveOut, for every fee from 0 to 10000 bps.
C26_ProductNeverDecreases ==
    /\ sim.kAfter >= sim.kBefore
    /\ sim.fn \in {"pair", "getAmountOut", "swap", "refused"} =>
           /\ sim.kAfter = sim.reserveIn * sim.reserveOut
           /\ sim.reserveOut > 0

\* a second swap on a pair without fee left the product larger
C26_Witness ==
    /\ sim.fn = "swap"
    /\ sim.swaps = 2
    /\ sim.feeBps = 0
    /\ sim.kAfter > sim.kBefore

-----------------------------------------------------------------------------
(* Part IV: specification and properties of PriceGraphBuilder *)

\* reserves of a fetched pair, in units: empty on one side, below
\* MIN_RESERVE_NORMALIZED, valid, and beyond MAX_RESERVE_RATIO
FetchedReserves ==
    { <<0, 2>>, <<2, 0>>, <<1, 1>>, <<2, 2>>, <<2, 3>>,
      <<1, MAX_RESERVE_RATIO + 1>>, <<MAX_RESERVE_RATIO + 1, 1>> }

\* the PairMetadata fetchPairMetadata returns for a pair
PairMeta(pairAddress, reserves) ==
    [ address |-> pairAddress, token0 |-> "A", token1 |-> "b",
      reserve0 |-> reserves[1], reserve1 |-> reserves[2] ]

\* the results fetched for a factory of two pairs: the first with any of
\* the reserves, the second valid or failed
FetchResults ==
    { <<PairMeta("pairA", r), second>> :
        r \in FetchedReserves, second \in {NullPair, PairMeta("pairB", <<2, 2>>)} }

\* the edges addPair is called with: a V2 pair with or without reserves
\* (token0 in mixed case), a second pair of the same tokens on another
\* venue, a V3 pool with or without liquidity
PairEdges ==
    { V2Edge("pairA", "uniswap", "A", "b", r0, r1) : r0 \in {0, 2}, r1 \in {0, 2} }
    \cup { V2Edge("pairB", "sushiswap", "a", "b", 2, 2) }
    \cup { V3Edge("poolC", "uniswapV3", "b", "c", liquidity) : liquidity \in {0, 2} }

\* the tokens addToken is called with
TokenVertices ==
    { [address |-> "A", symbol |-> "USDC", decimals |-> 6, isBorrowable |-> TRUE],
      [address |-> "b", symbol |-> "WETH", decimals |-> 18, isBorrowable |-> FALSE] }

NextGraph ==
    \/ \E token \in TokenVertices : AddToken(token)
    \/ \E edge \in PairEdges : AddPair(edge)
    \/ Clear
    \/ \E results \in FetchResults : FetchPairsFromDex(results)

\* every sequence of addToken, addPair (at most MaxAdds pairs held), clear
\* and fetchPairsFromDex on a new graph
SpecGraph == InitSim /\ [][NextGraph]_vars

\* the identifiers of the pools the graph holds an edge of
PoolsHeld == {getAllEdges[i].pair : i \in 1..Len(getAllEdges)}

\* the directed edges the graph holds of one pool
EdgesOfPool(pairAddress) ==
    LET OfPool(e) == e.pair = pairAddress
    IN  SelectSeq(getAllEdges, OfPool)

\* C27: every edge the graph holds has strictly positive reserves (V2) or
\* strictly positive liquidity (V3); a pair with a zero reserve or a pool
\* without liquidity is never an edge.
C27_EdgesPositive ==
    \A i \in 1..Len(getAllEdges) :
        LET e == getAllEdges[i]
        IN  IF e.dexType = "V2"
            THEN e.reserve0 > 0 /\ e.reserve1 > 0
            ELSE e.liquidity > 0

\* C28: adding a pool is idempotent by identifier: every pool the graph
\* holds contributes exactly two directed edges, however often it was
\* added, and getStatistics counts it once.
C28_TwoEdgesPerPool ==
    /\ \A pairAddress \in PoolsHeld : Len(EdgesOfPool(pairAddress)) = 2
    /\ getStatistics.pairCount = Cardinality(PoolsHeld)

-----------------------------------------------------------------------------
(* Part V: specifications and properties of ProfitOptimizer *)

\* the cycles optimized: pairA then pairD (profitable), pairA then the V3
\* pool (constant output), pairA forth and back (a loss)
OptPaths ==
    { <<Hop("v2", "usdc", "weth", "pairA"), Hop("v2", "weth", "usdc", "pairD")>>,
      <<Hop("v2", "usdc", "weth", "pairA"), Hop("v3", "weth", "usdc", "poolC")>>,
      <<Hop("v2", "usdc", "weth", "pairA"), Hop("v2", "weth", "usdc", "pairA")>> }

\* optimizer configurations with a non-empty domain and a derivative step
\* that keeps L - h non-negative
OptConfigs ==
    { cfg \in [ minLoanAmount : {1, 10}, maxLoanAmount : {30, 60},
                availableLiquidity : {20, 100}, maxIterations : {1, 20},
                toleranceAbsolute : {2}, derivativeStep : {1, 5}, minProfit : {5} ] :
        cfg.derivativeStep <= cfg.minLoanAmount }

\* initial guesses below, inside and above the domains
InitialGuesses == {0, 15, 25, 45, 200}

\* the steps findOptimalLoanSize takes once called
OptimizerStep ==
    \/ BeginIterating
    \/ \E roundUp \in BOOLEAN : NewtonIteration(roundUp)
    \/ FallbackStep
    \/ Finish

NextOptimizer ==
    \/ \E path \in OptPaths, gasCost \in {0, 2}, cfg \in OptConfigs,
          initialGuess \in InitialGuesses :
          FindOptimalLoanSize(path, gasCost, cfg, initialGuess)
    \/ OptimizerStep

\* runs of findOptimalLoanSize, one after the other
SpecOptimizer == InitSim /\ [][NextOptimizer]_vars

\* findOptimalLoanSize is a sequential loop: a step that can be taken is taken
SpecOptimizerLive == InitSim /\ [][NextOptimizer]_vars /\ WF_vars(OptimizerStep)

\* the transitions of the state machine
OptimizerTransitions ==
    { <<"Idle", "Initialized">>, <<"Done", "Initialized">>,
      <<"Initialized", "Iterating">>, <<"Iterating", "Iterating">>,
      <<"Iterating", "Converged">>, <<"Iterating", "MaxIterationsReached">>,
      <<"Iterating", "FallbackInvoked">>,
      <<"MaxIterationsReached", "MaxIterationsReached">>,
      <<"FallbackInvoked", "FallbackInvoked">>,
      <<"Converged", "Done">>, <<"MaxIterationsReached", "Done">>,
      <<"FallbackInvoked", "Done">> }

\* a step of the optimizer is one of the transitions
AllowedTransition == <<optimizer.state, optimizer'.state>> \in OptimizerTransitions

Running == optimizer.state \notin {"Idle", "Done"}

\* C29: every run of findOptimalLoanSize follows Initialized -> Iterating ->
\* {Converged, MaxIterationsReached, FallbackInvoked} -> Done, performs at
\* most maxIterations Newton iterations and at most GoldenSectionIterations
\* fallback steps, and always reaches Done.
C29_ReachesDone ==
    /\ [][AllowedTransition]_optimizer
    /\ [](optimizer.state # "Idle" =>
            /\ optimizer.iteration <= optimizer.cfg.maxIterations
            /\ optimizer.fallbackSteps <= GoldenSectionIterations)
    /\ (Running ~> optimizer.state = "Done")

\* a run that used up its iterations finished through the fallback search
C29_Witness ==
    /\ optimizer.state = "Done"
    /\ optimizer.convergenceReason = "MaxIterationsReached"
    /\ optimizer.iteration = optimizer.cfg.maxIterations
    /\ optimizer.fallbackSteps > 0

\* the loan size lies in the domain of the run's configuration
InDomain(loanSize) ==
    /\ optimizer.cfg.minLoanAmount <= loanSize
    /\ loanSize <= optimizer.cfg.maxLoanAmount
    /\ loanSize <= optimizer.cfg.availableLiquidity

\* C30: every loan size the optimizer moves to and the optimalLoanSize it
\* reports lie in [minLoanAmount, min(maxLoanAmount, availableLiquidity)],
\* whatever the initial guess and the Newton step.
C30_WithinDomain ==
    optimizer.state # "Idle" =>
        /\ InDomain(optimizer.L)
        /\ \A loanSize \in optimizer.movedTo : InDomain(loanSize)
        /\ optimizer.state = "Done" => InDomain(optimizer.optimalLoanSize)

\* a run from a guess outside the domain whose Newton step left the domain
\* before it was clamped
C30_Witness ==
    /\ optimizer.state = "Done"
    /\ ~ InDomain(optimizer.initialGuess)
    /\ optimizer.clampedSteps > 0

\* the result was produced by the fallback search, and says so
FlaggedFallback ==
    optimizer.convergenceReason \in {"FallbackInvoked", "MaxIterationsReached"}

-----------------------------------------------------------------------------
(* Part VI: specification and properties of ArbitrageScanner.scan *)

\* the cycles findCycles gives: the profitable pairA-pairD cycle, the
\* pairA-poolC cycle of the same tokens, a cycle with a hop that has no
\* pair (simulatePath throws), and the dai cycle on pairB
ProfitableCycle ==
    ScanPath(<<Hop("v2", "usdc", "weth", "pairA"), Hop("v2", "weth", "usdc", "pairD")>>)

SameTokensCycle ==
    ScanPath(<<Hop("v2", "usdc", "weth", "pairA"), Hop("v3", "weth", "usdc", "poolC")>>)

ThrowingCycle ==
    ScanPath(<<Hop("v2", "usdc", "dai", ""), Hop("v2", "dai", "usdc", "pairB")>>)

DaiCycle ==
    ScanPath(<<Hop("v2", "dai", "usdc", "pairB"), Hop("v2", "usdc", "dai", "pairB")>>)

\* a borrowable asset with what findCycles does for it
Asset(address, found, findCyclesThrows) ==
    [address |-> address, cycles |-> found, findCyclesThrows |-> findCyclesThrows]

UsdcAssets ==
    { Asset("usdc", found, throws) :
        found \in { <<ProfitableCycle>>, <<ThrowingCycle, ProfitableCycle>>,
                     <<ProfitableCycle, SameTokensCycle>>, <<ThrowingCycle>> },
        throws \in BOOLEAN }

DaiAssets ==
    { Asset("dai", found, throws) : found \in {<<>>, <<DaiCycle>>}, throws \in BOOLEAN }

\* the asset lists of a scan
AssetLists ==
    {<<u>> : u \in UsdcAssets}
    \cup {<<u, d>> : u \in UsdcAssets, d \in DaiAssets}
    \cup {<<d, u>> : u \in UsdcAssets, d \in DaiAssets}

ScannerConfigs ==
    [maxPathsToOptimize : {1, 100}, maxResultsToReturn : {1, 10}, minProfitUsd : {5}]

\* the loan sizes the optimizer may report
ScanLoanSizes == {10, 20}

NextScan ==
    \/ \E assets \in AssetLists, scannerConfig \in ScannerConfigs :
          Scan(assets, scannerConfig)
    \/ FindCyclesOfAsset
    \/ BeginOptimization
    \/ \E loanSize \in ScanLoanSizes : OptimizePath(loanSize)
    \/ RankAndReturn

SpecScan == InitSim /\ [][NextScan]_vars

\* C21: no failure for one asset or one path terminates a scan: the scan
\* is never ended by an exception, and a scan that returned has gone through
\* every asset and every path to optimize and returns a ranked list.
C21_ScanSurvivesFailures ==
    /\ scan.state # "rejected"
    /\ scan.state = "returned" =>
           /\ scan.assetIdx = Len(scan.assets)
           /\ scan.pathIdx = Len(scan.pathsToOptimize)
           /\ \A i \in 1..Len(scan.result) : scan.result[i].rank = i

-----------------------------------------------------------------------------
(* Part VII: specification and properties of simulateSwapMultiTick *)

\* ticks lie within MaxTick spacings of tick 0
MaxTick == 2

TickRange == (0 - MaxTick)..MaxTick

\* a position adds its liquidity at its lower tick and removes it at its
\* upper tick
LiquidityNetOf(t) == IF t < 0 THEN 5 ELSE 0 - 5

TickMaps == {[t \in initialized |-> LiquidityNetOf(t)] : initialized \in SUBSET TickRange}

V3Pools ==
    [tick : {0, 1}, liquidity : {0, 5, 10}, fee : {3000}]

V3AmountsIn == {0, 1, 6, 20, 60}

NextTicks ==
    \/ \E amountIn \in V3AmountsIn, pool \in V3Pools, zeroForOne \in BOOLEAN,
          ticks \in TickMaps :
          SimulateSwapMultiTick(amountIn, pool, zeroForOne, ticks)
    \/ TraverseTick

SpecTicks == InitSim /\ [][NextTicks]_vars

\* the loop is scheduled until it returns
SpecTicksLive == InitSim /\ [][NextTicks]_vars /\ WF_vars(TraverseTick)

\* the initialized ticks between the pool's tick and the tick reached
CrossedTicks ==
    {t \in DOMAIN v3.ticks :
        IF v3.zeroForOne THEN v3.tick <= t /\ t < v3.pool.tick
                         ELSE v3.pool.tick < t /\ t <= v3.tick}

\* C32: the multi-tick loop returns for every pool state and input, after
\* at most (initialized ticks crossed + 1) iterations: every iteration either
\* uses up the remaining input or moves to a strictly more extreme
\* initialized tick
C32_LoopTerminates ==
    /\ [](v3.state \in {"Swapping", "Done", "Invalid"} =>
             /\ v3.iterations <= v3.ticksCrossed + 1
             /\ v3.ticksCrossed = Cardinality(CrossedTicks)
             /\ v3.iterations = v3.ticksCrossed + 1 => v3.remaining = 0)
    /\ (v3.state = "Swapping") ~> (v3.state \in {"Done", "Invalid"})

C32_Witness ==
    /\ v3.state = "Done"
    /\ v3.ticksCrossed = 2
    /\ v3.iterations = 3

\* the cycles findCycles gave for the assets of the scan, in the order found
RECURSIVE FoundCycles(_)
FoundCycles(assets) ==
    IF assets = <<>> THEN <<>> ELSE Head(assets).cycles \o FoundCycles(Tail(assets))

\* C33: de-duplication never discards a distinct pool route: once scan() has
\* removed the duplicates, every cycle the path finder found, parallel
\* routes over one token sequence included, is among the paths handed to
\* the optimization (the cap maxPathsToOptimize not being reached).
C33_ParallelRoutesKept ==
    (/\ scan.state \in {"optimizing", "returned"}
     /\ Len(FoundCycles(scan.assets)) <= scan.config.maxPathsToOptimize) =>
        \A i \in 1..Len(FoundCycles(scan.assets)) :
            \E j \in 1..Len(scan.pathsToOptimize) :
                scan.pathsToOptimize[j] = FoundCycles(scan.assets)[i]

-----------------------------------------------------------------------------
(* Part I: findCycles on the ring of six V2 pairs *)

\* DEFAULT_PATHFINDER_CONFIG
DefaultPathFinderConfig ==
    MkConfig([minDepth |-> 2, maxDepth |-> DefaultMaxDepth],
             [enablePruning |-> TRUE, minLiquidity |-> 10000,
              maxGasEstimate |-> 800000], 100)

\* the default configuration, and the same without pruning or with more gas
RingConfigs ==
    { DefaultPathFinderConfig,
      [DefaultPathFinderConfig EXCEPT !.enablePruning = FALSE],
      [DefaultPathFinderConfig EXCEPT !.maxGasEstimate = 1000000] }

\* the ring of six with or without the chord, and the ring of five alone
RingGraphs ==
    { RingEdgeIds, RingEdgeIds \cup {ChordEdgeId},
      (RingEdgeIds \ {EdgeCount + Len(RingTokenSeq) - 1, EdgeCount + Len(RingTokenSeq)})
          \cup {ChordEdgeId} }

InitRing ==
    /\ InitPathFinder
    /\ Deployed
    /\ graph \in RingGraphs
    /\ config \in RingConfigs
    /\ dupIn = <<>>

NextRing ==
    \/ \E s \in RingTokens : FindCycles(s)
    \/ Dfs

SpecRing == InitRing /\ [][NextRing]_vars

\* C34: under DEFAULT_PATHFINDER_CONFIG findCycles returns the 6-hop simple
\* cycle through the start token whose edges are V2 edges of gasEstimate
\* 110000 with liquidity of at least minLiquidity.
C34_SixHopCycleReturned ==
    (/\ pc = "done"
     /\ config = DefaultPathFinderConfig
     /\ RingEdgeIds \subseteq graph
     /\ start \in RingTokens) =>
        \E k \in 1..Len(cycles) :
            /\ Len(cycles[k].hops) = DefaultMaxDepth
            /\ cycles[k].tokenAddresses[1] = start
            /\ cycles[k].tokenAddresses[DefaultMaxDepth + 1] = start

-----------------------------------------------------------------------------
(* Part VIII: specification and properties of the strategies *)

\* the graphs hold up to MaxStrategyTokens tokens
MaxStrategyTokens == 7

StrategyTokenSeq == <<"usdc", "weth", "dai", "usdt", "cbeth", "aero", "degen", "toshi">>

\* the pair of the i-th and the j-th token, with equal reserves
StrategyPair(i, j) ==
    V2Edge(<<i, j>>, "BaseSwap", StrategyTokenSeq[i], StrategyTokenSeq[j], 100, 100)

\* the graph PriceGraphBuilder holds after addPair of every pair of the list
RECURSIVE GraphOfPairs(_)
GraphOfPairs(pairs) ==
    IF pairs = <<>> THEN EmptyMap
    ELSE addPair(GraphOfPairs(SubSeq(pairs, 1, Len(pairs) - 1)), pairs[Len(pairs)])

\* the pairs i-j, i < j, among the first n tokens, in order
AllPairsAmong(n) ==
    SelectSeq([k \in 1..(n * n) |-> <<((k - 1) \div n) + 1, ((k - 1) % n) + 1>>],
              LAMBDA p : p[1] < p[2])

\* the ring over the first n tokens
RingPairs(n) == [i \in 1..n |-> StrategyPair(i, (i % n) + 1)]

\* every graph over the first four tokens, the rings of five and more
\* tokens, and the complete graph over five
StrategyGraphs ==
    { GraphOfPairs([k \in 1..Len(SelectSeq(AllPairsAmong(4), LAMBDA p : p \in chosen)) |->
                       LET p == SelectSeq(AllPairsAmong(4), LAMBDA q : q \in chosen)[k]
                       IN  StrategyPair(p[1], p[2])]) :
          chosen \in SUBSET {<<1, 2>>, <<1, 3>>, <<1, 4>>, <<2, 3>>, <<2, 4>>, <<3, 4>>} }
    \cup { GraphOfPairs(RingPairs(n)) : n \in 5..MaxStrategyTokens }
    \cup { GraphOfPairs([k \in 1..Len(AllPairsAmong(5)) |->
                            StrategyPair(AllPairsAmong(5)[k][1], AllPairsAmong(5)[k][2])]) }

\* graph.getBorrowableAssets()
BorrowableLists == {<<"usdc">>, <<"weth">>, <<"usdc", "weth">>}

StrategyThresholds == {0, 5}

NextStrategy ==
    \/ \E g \in StrategyGraphs, assets \in BorrowableLists, threshold \in StrategyThresholds :
          MultiHopFindOpportunities(g, assets, threshold)
    \/ \E g \in StrategyGraphs, assets \in BorrowableLists, threshold \in StrategyThresholds :
          TriangularFindOpportunities(g, assets, threshold)

SpecStrategy == InitSim /\ [][NextStrategy]_vars

\* C35: every cycle MultiHopCrossDex.findCycles produces and every
\* opportunity findOpportunities returns has between MIN_HOPS and MAX_HOPS
\* hops and starts and ends at the borrowable start token, so that it never
\* exceeds the contract's limit of MaxPathLength hops.
C35_MultiHopWithinLimits ==
    hopSearch.fn = "MultiHopCrossDex.findOpportunities" =>
        /\ \A i \in 1..Len(hopSearch.cycles) :
              LET found == hopSearch.cycles[i]
              IN  /\ Len(found.cycle) - 1 \in MIN_HOPS..MAX_HOPS
                  /\ Len(found.cycle) - 1 <= MaxPathLength
                  /\ found.cycle[1] = found.startToken
                  /\ found.cycle[Len(found.cycle)] = found.startToken
        /\ \A i \in 1..Len(hopSearch.opportunities) :
              LET path == hopSearch.opportunities[i].path
              IN  /\ Len(path.hops) \in MIN_HOPS..MAX_HOPS
                  /\ path.hops[1].tokenIn = path.startToken
                  /\ path.hops[Len(path.hops)].tokenOut = path.startToken

\* the 3-hop cycles startToken -> B -> C -> startToken of the graph g
ThreeHopCyclesOf(g, startToken) ==
    { <<startToken, b, c, startToken>> :
        <<b, c>> \in { p \in (DOMAIN g) \X (DOMAIN g) :
                         /\ Cardinality({startToken, p[1], p[2]}) = 3
                         /\ GraphHasEdge(g, startToken, p[1])
                         /\ GraphHasEdge(g, p[1], p[2])
                         /\ GraphHasEdge(g, p[2], startToken) } }

\* C36: findThreeHopCycles(A) returns exactly the 3-hop cycles
\* A -> B -> C -> A of the graph, A, B, C pairwise distinct.
C36_ThreeHopCycles ==
    hopSearch.fn = "TriangularArbitrage.findOpportunities" =>
        \A a \in 1..Len(hopSearch.assets) :
            { hopSearch.cycles[i].cycle :
                i \in { j \in 1..Len(hopSearch.cycles) :
                          hopSearch.cycles[j].startToken = hopSearch.assets[a] } }
            = ThreeHopCyclesOf(hopSearch.graph, hopSearch.assets[a])

-----------------------------------------------------------------------------
(* Part IX: specification and properties of StrategyEngine.findOpportunities *)

\* calls of findOpportunities followed, and the last millisecond of the clock
MaxEngineCalls == 3
MaxClock == 6

\* a one-hop path description of the given DEX and pool
EnginePath(dexName, pairAddress) ==
    [ startToken |-> "usdc", endToken |-> "usdc",
      hops |-> << [dexName |-> dexName, tokenIn |-> "usdc", tokenOut |-> "weth",
                   pair |-> pairAddress] >> ]

\* the opportunities the strategies report: two pools of BaseSwap (one
\* signature), one of Aerodrome, and one of too little confidence
EngineOpportunities ==
    { [path |-> EnginePath("BaseSwap", "pairA"), estimatedProfit |-> 9, confidence |-> 90],
      [path |-> EnginePath("BaseSwap", "pairD"), estimatedProfit |-> 7, confidence |-> 90],
      [path |-> EnginePath("Aerodrome", "pairB"), estimatedProfit |-> 8, confidence |-> 80],
      [path |-> EnginePath("SushiSwap", "pairE"), estimatedProfit |-> 20, confidence |-> 50] }

EngineConfigs ==
    [minConfidence : {70}, deduplicationWindow : {1, 3}, maxOpportunitiesPerCycle : {1, 10}]

NextEngine ==
    \/ \E engineConfig \in EngineConfigs : ConfigureEngine(engineConfig)
    \/ EngineClock(MaxClock)
    \/ \E allOpportunities \in SeqsUpTo(EngineOpportunities, 2) :
          EngineFindOpportunities(allOpportunities, MaxEngineCalls)

SpecEngine == InitSim /\ [][NextEngine]_vars

\* C37: a path signature is returned at most once within any
\* deduplicationWindow milliseconds, and no result holds a signature twice.
C37_ReturnedOncePerWindow ==
    /\ \A c \in 1..Len(engine.returned) :
          \A i, j \in 1..Len(engine.returned[c].signatures) :
              i # j => engine.returned[c].signatures[i] # engine.returned[c].signatures[j]
    /\ \A c, d \in 1..Len(engine.returned) :
          c < d =>
              \A i \in 1..Len(engine.returned[c].signatures) :
                  \A j \in 1..Len(engine.returned[d].signatures) :
                      engine.returned[c].signatures[i] = engine.returned[d].signatures[j]
                          => engine.returned[d].time - engine.returned[c].time
                                 >= engine.config.deduplicationWindow

\* a signature returned, withheld within the window and from one batch
\* holding it twice, and returned again after the window
C37_Witness ==
    /\ Len(engine.returned) = 3
    /\ engine.config.deduplicationWindow = 3
    /\ engine.returned[1].signatures = <<createPathSignature(EnginePath("BaseSwap", "pairA"))>>
    /\ engine.returned[2].signatures = <<>>
    /\ engine.returned[2].time = engine.returned[1].time + 2
    /\ engine.returned[3].signatures = <<createPathSignature(EnginePath("BaseSwap", "pairD"))>>
    /\ engine.returned[3].time = engine.returned[1].time + 3

-----------------------------------------------------------------------------
(* Part X: specification and properties of ArbitrageBot.start / stop *)

\* calls of start() followed
MaxStarts == 3

NextBot ==
    \/ Start(MaxStarts)
    \/ Stop
    \/ \E i \in 1..MaxStarts, rejected \in BOOLEAN : ScanCycleSettles(i, rejected)
    \/ \E i \in 1..MaxStarts : SleepResolves(i)

SpecBot == InitSim /\ [][NextBot]_vars

\* C38: for every interleaving of start() and stop() at most one main loop
\* is active, and a loop that was running when stop() was called returns
\* once its current scan cycle or sleep has finished.
C38_SingleLoop ==
    /\ Cardinality(ActiveLoops) <= 1
    /\ \A i \in 1..Len(bot.loops) : ~ bot.loops[i].survived

-----------------------------------------------------------------------------
(* Part XI: specification and properties of PairFetcher.fetchAllPairs *)

\* the clock advances in steps of ClockStep seconds up to MaxSeconds
ClockStep == 5
MaxSeconds == 90

NextPairCache ==
    \/ PairClock(ClockStep, MaxSeconds)
    \/ \E forceRefresh \in BOOLEAN, fetchFails \in BOOLEAN :
          FetchAllPairs(forceRefresh, fetchFails)

SpecPairCache == InitSim /\ [][NextPairCache]_vars

\* C39: every pair list fetchAllPairs returns was read from the chain at
\* most TTL seconds before it is returned, and with forceRefresh = true it
\* is read during that call.
C39_PairsFresh ==
    \A i \in 1..Len(pairCache.returned) :
        \A j \in 1..Len(pairCache.returned[i].pairs) :
            /\ pairCache.returned[i].time - pairCache.returned[i].pairs[j].readAt
                   <= PAIR_CACHE_TTL
            /\ pairCache.returned[i].forceRefresh =>
                   pairCache.returned[i].pairs[j].readAt = pairCache.returned[i].time

-----------------------------------------------------------------------------
(* Part XII: specification and properties of ArbitrageScanner.scanAsset *)

\* calls of scanAsset followed
MaxScanAssetCalls == 3

NextAssetScan ==
    \/ \E assetAddress \in {"usdc", "weth", "dai"} :
          ScanAsset(assetAddress, MaxScanAssetCalls)
    \/ \E i \in 1..MaxScanAssetCalls, rejected \in BOOLEAN : ScanAssetSettles(i, rejected)

SpecAssetScan == InitSim /\ [][NextAssetScan]_vars

\* C40: scanAsset leaves config.targetAssets unchanged: once every call has
\* returned or failed, targetAssets is what it was before the calls, also
\* when a scan failed and when calls overlapped.
C40_TargetAssetsRestored ==
    (\A i \in 1..Len(assetScan.calls) : assetScan.calls[i].at # "scan") =>
        assetScan.targetAssets = NewAssetScanner.targetAssets

=============================================================================
